---- MODULE Spec2Model ----
(***************************************************************************)
(* The user-space readiness queue of src/src/poll.rs: the packed node      *)
(* state, Registration / SetReadiness handles, the intrusive MPSC queue    *)
(* with its end and sleep markers, Poll::poll's entry gate and poll2, and  *)
(* ReadinessQueue::poll's drain.                                           *)
(*                                                                         *)
(* Every access to shared memory (an atomic load, store, swap, CAS or      *)
(* fetch-op, or a plain access to a token slot) is one step; computations  *)
(* on a thread's locals are folded into the step that produced them.       *)
(* Atomics are taken sequentially consistent.                              *)
(***************************************************************************)
EXTENDS Integers, Sequences, FiniteSets, TLC

\* ------------------------------------------------------------------ bounds

\* the queue specification: set_readiness calls and Poll::poll calls started
MaxOps == 2
MaxPolls == 2
\* the update specification: handle calls and Poll::poll calls started
MaxUpdateOps == 2
MaxUpdatePolls == 2
\* the lifecycle specification: handle calls and Poll::poll calls started
MaxDropOps == 4
MaxDropPolls == 2
\* the gate specification: Poll::poll calls started
MaxGatePolls == 3
\* the oneshot specification: set_readiness calls and Poll::poll calls started
MaxOneshotOps == 2
MaxOneshotPolls == 2
\* the level-triggered drain
MaxLevelOps == 2
MaxLevelPolls == 2
\* the selector-failure specification: set_readiness calls and Poll::poll
\* calls started
MaxSelectOps == 1
MaxSelectPolls == 2
\* the state-word specification: handle calls and Poll::poll calls started
MaxFrameOps == 3
MaxFramePolls == 2
\* the token-slot specification: update calls started
MaxTokenOps == 2
\* SetReadiness handles of one node alive at once (clones included)
MaxSetReadiness == 2
\* the largest Events capacity a caller passes
MaxCapacity == 2

\* ---------------------------------------------------------------- universe

Nil == "nil"
EndMarker == "end_marker"
SleepMarker == "sleep_marker"
Nodes == {"n1", "n2"}
AllNodes == Nodes \cup {EndMarker, SleepMarker}
Producers == {"t1", "t2"}
Pollers == {"c1", "c2", "c3"}
\* the one thread that polls in the queue specification
Consumer == "c1"

Readable == "readable"
Writable == "writable"
Edge == "edge"
Level == "level"
Oneshot == "oneshot"

\* native events one selector call reports
MaxNative == 1

\* what callers pass
ReadyInputs == {{}, {Readable}}
InterestInputs == {{Readable}}
OptInputs == {{Edge}, {Level}, {Edge, Oneshot}}
\* the options that include oneshot
OneshotInputs == {{Edge, Oneshot}, {Level, Oneshot}}
NewToken == 7
\* the Poll instances of the program: the one whose readiness queue is
\* modelled, which created every registration, and another one
ThisPoll == "poll_a"
OtherPoll == "poll_b"
Polls == {ThisPoll, OtherPoll}
UpdateTokens == {7, 42}
Timeouts == {"zero", "finite", "none"}
Capacities == 1..MaxCapacity

VARIABLES
    \* ReadinessQueueInner
    head_readiness, tail_readiness, awakened,
    \* ReadinessNode, per node (next_readiness also for the two markers)
    state, token, next_readiness, update_lock, num_registration, ref_count,
    \* allocation of each node: "live" or "freed"
    alloc,
    \* the handles alive: Registration (at most one) and SetReadiness (a count)
    registration_handle, set_readiness_handles,
    \* Poll: lock_state, lock (the mutex's holder) and condvar (waiting / notified)
    lock_state, lock, condvar,
    \* the threads: producers (handle users) and pollers (Poll::poll callers)
    prod, poller,
    \* bookkeeping: handle calls and polls that may still start, nodes a producer
    \* stepped on during the current poll, nodes whose readiness awaits delivery
    ops, polls, touched, pending,
    \* history: nodes enqueued behind the sleep marker whose wakeup is done and
    \* that the consumer has not dequeued since; nodes whose effective readiness
    \* has been empty since their last event; nodes that were dropped or
    \* deregistered when the current poll started; how often the consumer has
    \* released its reference to each node; nodes linked in the queue when a
    \* poll returned the selector's error and not dequeued since
    woken, cleared, quiet, released, undrained

vars == <<head_readiness, tail_readiness, awakened, state, token, next_readiness,
          update_lock, num_registration, ref_count, alloc, registration_handle,
          set_readiness_handles, lock_state, lock, condvar, prod, poller, ops, polls,
          touched, pending, woken, cleared, quiet, released, undrained>>

queueVars == <<head_readiness, tail_readiness, next_readiness>>
nodeVars == <<state, token, update_lock, num_registration, ref_count, alloc>>
handleVars == <<registration_handle, set_readiness_handles>>
gateVars == <<lock_state, lock, condvar>>
histVars == <<woken, cleared, quiet, released, undrained>>

\* ------------------------------------------------------- ReadinessState

ReadinessState_new(interest, opt) ==
    [readiness |-> {}, interest |-> interest, opts |-> opt,
     token_read_pos |-> 0, token_write_pos |-> 0,
     queued |-> FALSE, dropped |-> FALSE]

effective_readiness(s) == s.readiness \cap s.interest

is_edge(opt) == Edge \in opt
is_oneshot(opt) == Oneshot \in opt

set_queued(s) == [s EXCEPT !.queued = TRUE]
set_dequeued(s) == [s EXCEPT !.queued = FALSE]
\* a disarm that clears the readiness along with the interest
disarm_Readiness(s) == [s EXCEPT !.interest = {}, !.readiness = {}]

disarm(s) == [s EXCEPT !.interest = {}]

\* a choice of slot that takes the one the consumer reads
next_token_pos_ReadPos(s) == s.token_read_pos

\* lines 1436-1468
next_token_pos(s) ==
    LET rd == s.token_read_pos
        wr == s.token_write_pos
    IN CASE wr = 0 -> (CASE rd = 1 -> 2 [] rd = 2 -> 1 [] OTHER -> 1)
         [] wr = 1 -> (CASE rd = 0 -> 2 [] rd = 2 -> 0 [] OTHER -> 2)
         [] OTHER  -> (CASE rd = 0 -> 1 [] rd = 1 -> 0 [] OTHER -> 0)

\* line 1478 writes the value back at TOKEN_WR_SHIFT
update_token_read_pos(s) == [s EXCEPT !.token_write_pos = s.token_write_pos]

\* the registration is disabled: its last Registration is dropped, or
\* deregister left it without interest and options (line 686)
Disabled(s) == s.dropped \/ (s.interest = {} /\ s.opts = {})

\* --------------------------------------------------------------- threads

IdleProd ==
    [pc |-> "idle", op |-> "none", node |-> Nil, ready |-> {}, token |-> 0, interest |-> {},
     opt |-> {}, state |-> ReadinessState_new({}, {}),
     next |-> ReadinessState_new({}, {}), next_token_pos |-> 0,
     changed |-> FALSE, prev |-> Nil, poll |-> ThisPoll]

IdlePoller ==
    [pc |-> "idle", timeout |-> "zero", capacity |-> 0, curr |-> 0,
     inc |-> FALSE, sleep |-> FALSE, res |-> FALSE, native |-> 0,
     events |-> <<>>, until |-> Nil, ptr |-> Nil, prev |-> Nil,
     state |-> ReadinessState_new({}, {}), next |-> ReadinessState_new({}, {}),
     readiness |-> {}, fresh |-> 0, timed_out |-> FALSE, failed |-> FALSE]

\* the threads inside a handle method on node n (borrowing the handle)
InSetReadiness(n) ==
    {t \in Producers : prod[t].node = n /\ prod[t].op = "set_readiness"}
InUpdate(n) ==
    {t \in Producers : prod[t].node = n /\ prod[t].op = "update"}

PollInProgress == \E p \in Pollers : poller[p].pc # "idle"

\* the consumer has dequeued node n and is not done with it
Held(n) == \E p \in Pollers : poller[p].ptr = n

\* a producer step on node n while a poll runs is remembered for that poll
Touch(n) == IF PollInProgress THEN touched \cup {n} ELSE touched

\* a node created with two references, none of them the queue's
ReadinessNode_new_TwoRefs(tok, interest, opt) ==
    [state |-> ReadinessState_new(interest, opt), token |-> <<tok, 0, 1>>,
     next_readiness |-> Nil, update_lock |-> FALSE, num_registration |-> 1,
     ref_count |-> 2]

\* ReadinessNode::new (lines 1232-1244) and ReadinessNode::marker (1246-1257)
ReadinessNode_new(tok, interest, opt) ==
    [state |-> ReadinessState_new(interest, opt), token |-> <<tok, 0, 1>>,
     next_readiness |-> Nil, update_lock |-> FALSE, num_registration |-> 1,
     ref_count |-> 3]

ReadinessNode_marker ==
    [state |-> ReadinessState_new({}, {}), token |-> <<0, 0, 0>>,
     next_readiness |-> Nil, update_lock |-> FALSE, num_registration |-> 0,
     ref_count |-> 0]

\* Poll::new (lines 274-290) with ReadinessQueue::new (964-982), then one
\* Registration::new (634-664) per node: a Registration and a SetReadiness each.
\* opts[n] are the options node n may be registered with. The token positions
\* of every node's state word are drawn from `positions`: {0} at creation.
CreatedAt(opts, positions) ==
    /\ head_readiness = EndMarker
    /\ tail_readiness = EndMarker
    /\ awakened = FALSE
    /\ \E opt \in [Nodes -> OptInputs \cup OneshotInputs],
          interest \in [Nodes -> InterestInputs],
          rd \in positions, wr \in positions :
          LET node == [n \in AllNodes |->
                         IF n \in Nodes
                         THEN ReadinessNode_new(NewToken, interest[n], opt[n])
                         ELSE ReadinessNode_marker]
          IN /\ \A n \in Nodes : opt[n] \in opts[n]
             /\ state = [n \in AllNodes |->
                           IF n \in Nodes
                           THEN [node[n].state EXCEPT !.token_read_pos = rd,
                                                      !.token_write_pos = wr]
                           ELSE node[n].state]
             /\ token = [n \in AllNodes |-> node[n].token]
             /\ next_readiness = [n \in AllNodes |-> node[n].next_readiness]
             /\ update_lock = [n \in Nodes |-> node[n].update_lock]
             /\ num_registration = [n \in Nodes |-> node[n].num_registration]
             /\ ref_count = [n \in Nodes |-> node[n].ref_count]
    /\ alloc = [n \in Nodes |-> "live"]
    /\ registration_handle = [n \in Nodes |-> TRUE]
    /\ set_readiness_handles = [n \in Nodes |-> 1]
    /\ lock_state = 0
    /\ lock = Nil
    /\ condvar = [waiting |-> {}, notified |-> {}]
    /\ prod = [t \in Producers |-> IdleProd]
    /\ poller = [p \in Pollers |-> IdlePoller]
    /\ touched = {}
    /\ pending = {}
    /\ woken = {}
    /\ cleared = Nodes
    /\ quiet = {}
    /\ released = [n \in Nodes |-> 0]
    /\ undrained = {}

Created(opts) == CreatedAt(opts, {0})

\* the nodes the consumer reaches from its tail by following next pointers
RECURSIVE ReachFrom(_, _)
ReachFrom(m, seen) ==
    IF m = Nil \/ m \in seen THEN seen
    ELSE ReachFrom(next_readiness[m], seen \cup {m})

InQueue(n) == n \in ReachFrom(tail_readiness, {})

\* ------------------------------------------------------ release_node

release_node(n) ==
    /\ ref_count' = [ref_count EXCEPT ![n] = @ - 1]
    /\ alloc' = [alloc EXCEPT ![n] = IF ref_count[n] = 1 THEN "freed" ELSE @]

\* a state word whose dropped flag is never seen
is_dropped_Never(s) == FALSE

\* ReadinessState::is_dropped, as read at lines 753 and 1022: the node's last
\* Registration is gone
is_dropped(s) == s.dropped

\* ------------------------------------- RegistrationInner::set_readiness

\* a set_readiness that stores the readiness and never asks to be queued
set_readiness_next_NoQueue(s, ready) == [s EXCEPT !.readiness = ready]

\* a set_readiness that asks to be queued whatever the interest
set_readiness_next_AlwaysQueue(s, ready) == set_queued([s EXCEPT !.readiness = ready])

\* the state the CAS loop proposes (lines 751-765)
set_readiness_next(s, ready) ==
    LET n1 == [s EXCEPT !.readiness = ready]
    IN IF effective_readiness(n1) # {} THEN set_queued(n1) ELSE n1

\* the caller must enqueue (lines 776, 889)
must_enqueue(s, nx) == ~s.queued /\ nx.queued

Pending(n, nx) ==
    IF effective_readiness(nx) # {} THEN pending \cup {n} ELSE pending \ {n}

\* a write of node n's state that leaves its effective readiness empty
Cleared(n, nx) ==
    IF effective_readiness(nx) = {} THEN cleared \cup {n} ELSE cleared

SetReadiness_Load(t, n, ready) ==
    /\ prod[t].pc = "idle"
    /\ ops > 0
    /\ set_readiness_handles[n] > 0
    /\ prod' = [prod EXCEPT ![t] = [IdleProd EXCEPT !.pc = "sr_cas",
                   !.op = "set_readiness", !.node = n, !.ready = ready,
                   !.state = state[n], !.next = state[n]]]
    /\ ops' = ops - 1
    /\ touched' = Touch(n)
    /\ UNCHANGED <<queueVars, awakened, nodeVars, handleVars, gateVars, poller,
                   polls, pending, histVars>>

SetReadiness_Cas(t) ==
    LET n == prod[t].node
        s == prod[t].state
        nx == set_readiness_next(s, prod[t].ready)
    IN /\ prod[t].pc = "sr_cas"
       /\ touched' = Touch(n)
       /\ IF is_dropped(s)
          THEN \* node is dropped, no more notifications
               /\ prod' = [prod EXCEPT ![t] = IdleProd]
               /\ UNCHANGED <<state, pending, cleared>>
          ELSE IF state[n] = s
          THEN /\ state' = [state EXCEPT ![n] = nx]
               /\ pending' = Pending(n, nx)
               /\ cleared' = Cleared(n, nx)
               /\ prod' = [prod EXCEPT ![t] =
                     IF must_enqueue(s, nx)
                     THEN [@ EXCEPT !.pc = "enq_swap", !.next = nx]
                     ELSE IdleProd]
          ELSE /\ prod' = [prod EXCEPT ![t].state = state[n], ![t].next = state[n]]
               /\ UNCHANGED <<state, pending, cleared>>
       /\ UNCHANGED <<queueVars, awakened, token, update_lock, num_registration,
                      ref_count, alloc, handleVars, gateVars, poller, ops, polls,
                      woken, quiet, released, undrained>>

\* ------------------------------------------ ReadinessQueue::enqueue_node

\* an enqueue that fires the awakener behind either marker
needs_wakeup_AnyMarker(prev) == prev \in {EndMarker, SleepMarker}

\* enqueue_node's result: the awakener must be fired (line 1112)
needs_wakeup(prev) == prev = SleepMarker

\* lines 1103-1106: reset the node's next pointer, swap it in as the head
Enqueue_Swap(t) ==
    LET n == prod[t].node
    IN /\ prod[t].pc = "enq_swap"
       /\ next_readiness' = [next_readiness EXCEPT ![n] = Nil]
       /\ head_readiness' = n
       /\ prod' = [prod EXCEPT ![t].pc = "enq_link", ![t].prev = head_readiness]
       /\ touched' = Touch(n)
       /\ UNCHANGED <<tail_readiness, awakened, nodeVars, handleVars, gateVars,
                      poller, ops, polls, pending, histVars>>

\* line 1110: link the previous head to the node
Enqueue_Link(t) ==
    LET n == prod[t].node
    IN /\ prod[t].pc = "enq_link"
       /\ next_readiness' = [next_readiness EXCEPT ![prod[t].prev] = n]
       /\ prod' = [prod EXCEPT ![t] =
             IF needs_wakeup(prod[t].prev) THEN [@ EXCEPT !.pc = "enq_wakeup"]
             ELSE IdleProd]
       /\ touched' = Touch(n)
       /\ UNCHANGED <<head_readiness, tail_readiness, awakened, nodeVars,
                      handleVars, gateVars, poller, ops, polls, pending, histVars>>

\* line 1091: awakener.wakeup()
Enqueue_Wakeup(t) ==
    /\ prod[t].pc = "enq_wakeup"
    /\ awakened' = TRUE
    /\ prod' = [prod EXCEPT ![t] = IdleProd]
    /\ touched' = Touch(prod[t].node)
    /\ woken' = IF state[prod[t].node].queued /\ ~Held(prod[t].node)
                THEN woken \cup {prod[t].node} ELSE woken
    /\ UNCHANGED <<queueVars, nodeVars, handleVars, gateVars, poller, ops,
                   polls, pending, cleared, quiet, released, undrained>>

\* ------------------------------------------- RegistrationInner::update

\* an update_lock.compare_and_swap(false, true) that always takes the lock
lock_already_held_Never(previous) == FALSE

\* line 802: compare_and_swap returns the previous value of update_lock
lock_already_held(previous) == previous

\* a comparison of the poll instances that accepts every Poll
identical_Always(queue, other) == TRUE

\* lines 1221-1223: the two handles point to the same queue
identical(queue, other) == queue = other

\* lines 788-805: the poll instances match; take update_lock or discard
Update_Lock(t, n, poll, tok, interest, opt) ==
    /\ prod[t].pc = "idle"
    /\ ops > 0
    /\ registration_handle[n]
    /\ ops' = ops - 1
    /\ touched' = Touch(n)
    /\ IF ~identical(ThisPoll, poll)
       THEN \* registered with another instance of Poll
            /\ prod' = [prod EXCEPT ![t] = [IdleProd EXCEPT !.pc = "up_err",
                          !.op = "update", !.node = n, !.poll = poll]]
            /\ UNCHANGED update_lock
       ELSE IF lock_already_held(update_lock[n])
       THEN \* the lock is already held: discard the update
            /\ prod' = [prod EXCEPT ![t] = [IdleProd EXCEPT !.pc = "up_discard",
                          !.op = "update", !.node = n, !.poll = poll]]
            /\ UNCHANGED update_lock
       ELSE /\ update_lock' = [update_lock EXCEPT ![n] = TRUE]
            /\ prod' = [prod EXCEPT ![t] = [IdleProd EXCEPT !.pc = "up_load",
                          !.op = "update", !.node = n, !.poll = poll, !.token = tok,
                          !.interest = interest, !.opt = opt]]
    /\ UNCHANGED <<queueVars, awakened, state, token, num_registration, ref_count,
                   alloc, handleVars, gateVars, poller, polls, pending, histVars>>

\* line 789: the rejected update returns Err
Update_Err(t) ==
    /\ prod[t].pc = "up_err"
    /\ prod' = [prod EXCEPT ![t] = IdleProd]
    /\ touched' = Touch(prod[t].node)
    /\ UNCHANGED <<queueVars, awakened, nodeVars, handleVars, gateVars, poller,
                   ops, polls, pending, histVars>>

\* line 804: the discarded update returns Ok(())
Update_Discard(t) ==
    /\ prod[t].pc = "up_discard"
    /\ prod' = [prod EXCEPT ![t] = IdleProd]
    /\ touched' = Touch(prod[t].node)
    /\ UNCHANGED <<queueVars, awakened, nodeVars, handleVars, gateVars, poller,
                   ops, polls, pending, histVars>>

\* lines 810-831: load the state, read the current token, choose the slot
Update_Load(t) ==
    LET n == prod[t].node
        s == state[n]
        curr_token_pos == s.token_write_pos
        curr_token == token[n][curr_token_pos + 1]
        changed == prod[t].token # curr_token
    IN /\ prod[t].pc = "up_load"
       /\ prod' = [prod EXCEPT ![t].state = s, ![t].next = s,
                      ![t].changed = changed,
                      ![t].next_token_pos = IF changed THEN next_token_pos(s)
                                            ELSE curr_token_pos,
                      ![t].pc = IF changed THEN "up_write" ELSE "up_cas"]
       /\ touched' = Touch(n)
       /\ UNCHANGED <<queueVars, awakened, nodeVars, handleVars, gateVars, poller,
                      ops, polls, pending, histVars>>

\* lines 834-839: write the new token into the chosen slot
Update_Write(t) ==
    LET n == prod[t].node
    IN /\ prod[t].pc = "up_write"
       /\ token' = [token EXCEPT ![n][prod[t].next_token_pos + 1] = prod[t].token]
       /\ prod' = [prod EXCEPT ![t].pc = "up_cas"]
       /\ touched' = Touch(n)
       /\ UNCHANGED <<queueVars, awakened, state, update_lock, num_registration,
                      ref_count, alloc, handleVars, gateVars, poller, ops, polls,
                      pending, histVars>>

\* the state the CAS loop proposes (lines 844-867)
update_next(s, changed, pos, interest, opt) ==
    LET n1 == IF changed THEN [s EXCEPT !.token_write_pos = pos] ELSE s
        n2 == [n1 EXCEPT !.interest = interest, !.opts = opt]
    IN IF effective_readiness(n2) # {} THEN set_queued(n2) ELSE n2

Update_Cas(t) ==
    LET n == prod[t].node
        s == prod[t].state
        nx == update_next(s, prod[t].changed, prod[t].next_token_pos,
                          prod[t].interest, prod[t].opt)
    IN /\ prod[t].pc = "up_cas"
       /\ touched' = Touch(n)
       /\ IF state[n] = s
          THEN /\ state' = [state EXCEPT ![n] = nx]
               /\ pending' = Pending(n, nx)
               /\ cleared' = Cleared(n, nx)
               /\ quiet' = IF Disabled(nx) THEN quiet ELSE quiet \ {n}
               /\ prod' = [prod EXCEPT ![t].pc = "up_unlock", ![t].next = nx]
          ELSE /\ prod' = [prod EXCEPT ![t].state = state[n], ![t].next = state[n]]
               /\ UNCHANGED <<state, pending, cleared, quiet>>
       /\ UNCHANGED <<queueVars, awakened, token, update_lock, num_registration,
                      ref_count, alloc, handleVars, gateVars, poller, ops, polls,
                      woken, released, undrained>>

\* lines 887-892: release the lock; enqueue if this call set the queued flag
Update_Unlock(t) ==
    LET n == prod[t].node
    IN /\ prod[t].pc = "up_unlock"
       /\ update_lock' = [update_lock EXCEPT ![n] = FALSE]
       /\ prod' = [prod EXCEPT ![t] =
             IF must_enqueue(prod[t].state, prod[t].next)
             THEN [@ EXCEPT !.pc = "enq_swap"]
             ELSE IdleProd]
       /\ touched' = Touch(n)
       /\ UNCHANGED <<queueVars, awakened, state, token, num_registration,
                      ref_count, alloc, handleVars, gateVars, poller, ops, polls,
                      pending, histVars>>

\* Registration::deregister: update(poll, Token(0), Ready::none(), PollOpt::empty())
Registration_deregister(t, n, poll) == Update_Lock(t, n, poll, 0, {}, {})

\* ------------------------------------------------------- handle drops

\* Drop for Registration (lines 690-703): the last handle flags the node as
\* dropped. No update call borrows the handle while it is dropped.
Registration_Drop(t, n) ==
    /\ prod[t].pc = "idle"
    /\ ops > 0
    /\ registration_handle[n]
    /\ InUpdate(n) = {}
    /\ num_registration' = [num_registration EXCEPT ![n] = @ - 1]
    /\ state' = [state EXCEPT ![n].dropped =
                    IF num_registration[n] = 1 THEN TRUE ELSE @]
    /\ registration_handle' = [registration_handle EXCEPT ![n] = FALSE]
    /\ prod' = [prod EXCEPT ![t] = [IdleProd EXCEPT !.pc = "release",
                   !.op = "drop", !.node = n]]
    /\ ops' = ops - 1
    /\ touched' = Touch(n)
    /\ UNCHANGED <<queueVars, awakened, token, update_lock, ref_count, alloc,
                   set_readiness_handles, gateVars, poller, polls, pending, histVars>>

\* Drop for RegistrationInner (lines 948-953), the Registration's inner handle
RegistrationInner_Drop(t) ==
    /\ prod[t].pc = "release"
    /\ release_node(prod[t].node)
    /\ prod' = [prod EXCEPT ![t] = IdleProd]
    /\ touched' = Touch(prod[t].node)
    /\ UNCHANGED <<queueVars, awakened, state, token, update_lock,
                   num_registration, handleVars, gateVars, poller, ops, polls,
                   pending, histVars>>

\* Dropping a SetReadiness releases its reference. The handle dropped is one no
\* set_readiness call borrows.
SetReadiness_Drop(n) ==
    /\ ops > 0
    /\ set_readiness_handles[n] > 0
    /\ set_readiness_handles[n] > Cardinality(InSetReadiness(n))
    /\ set_readiness_handles' = [set_readiness_handles EXCEPT ![n] = @ - 1]
    /\ release_node(n)
    /\ ops' = ops - 1
    /\ touched' = Touch(n)
    /\ UNCHANGED <<queueVars, awakened, state, token, update_lock,
                   num_registration, registration_handle, gateVars, prod, poller,
                   polls, pending, histVars>>

\* Clone for RegistrationInner (lines 912-945), through SetReadiness's Clone
SetReadiness_Clone(n) ==
    /\ ops > 0
    /\ set_readiness_handles[n] > 0
    /\ set_readiness_handles[n] < MaxSetReadiness
    /\ ref_count' = [ref_count EXCEPT ![n] = @ + 1]
    /\ set_readiness_handles' = [set_readiness_handles EXCEPT ![n] = @ + 1]
    /\ ops' = ops - 1
    /\ UNCHANGED <<queueVars, awakened, state, token, update_lock,
                   num_registration, alloc, registration_handle, gateVars, prod,
                   poller, polls, touched, pending, histVars>>

\* ----------------------------------------------------------- Poll::poll

Markers == {EndMarker, SleepMarker}

Len_events(p) == poller[p].native + Len(poller[p].events)

\* the head of the drain loop (line 992), for a buffer of length len
DrainTop(p, len) == IF len < poller[p].capacity THEN "dq_load" ELSE "exit"

\* poll2's first branch (lines 481-485)
Poll2Entry(timeout) == IF timeout = "zero" THEN "select" ELSE "pfs_store"

\* after the selector and the sleep marker's removal (lines 512-518)
AfterSelect(p, res, len) == IF res THEN "cleanup" ELSE DrainTop(p, len)

OpsInFlight == {prod[t].node : t \in {u \in Producers : prod[u].pc # "idle"}}

\* line 371: the fast path's CAS 0 -> 1; on failure the slow path follows
Poll_Enter(p, timeout, capacity) ==
    /\ poller[p].pc = "idle"
    /\ polls > 0
    /\ polls' = polls - 1
    /\ poller' = [poller EXCEPT ![p] = [IdlePoller EXCEPT
          !.timeout = timeout, !.capacity = capacity, !.curr = lock_state,
          !.pc = IF lock_state = 0 THEN Poll2Entry(timeout) ELSE "gate_lock"]]
    /\ lock_state' = IF lock_state = 0 THEN 1 ELSE lock_state
    /\ touched' = IF PollInProgress THEN touched ELSE OpsInFlight
    /\ quiet' = IF PollInProgress THEN quiet
                ELSE {n \in Nodes : Disabled(state[n])}
    /\ UNCHANGED <<queueVars, awakened, nodeVars, handleVars, lock, condvar,
                   prod, ops, pending, woken, cleared, released, undrained>>

\* ------------------------------------- ReadinessQueue::prepare_for_sleep

\* line 1173
PrepareForSleep_Store(p) ==
    /\ poller[p].pc = "pfs_store"
    /\ next_readiness' = [next_readiness EXCEPT ![SleepMarker] = Nil]
    /\ poller' = [poller EXCEPT ![p].pc = "pfs_cas"]
    /\ UNCHANGED <<head_readiness, tail_readiness, awakened, nodeVars,
                   handleVars, gateVars, prod, ops, polls, touched, pending, histVars>>

\* prepare_for_sleep's answer to the head it found (line 1180)
can_sleep(actual) == actual = EndMarker

\* lines 1175-1192, and poll2's use of the result (lines 485-495)
\* The debug_assert! at lines 1186 and 1188 are compiled out of an optimised
\* build and change no state; the step is the code that remains.
PrepareForSleep_Cas(p) ==
    /\ poller[p].pc = "pfs_cas"
    /\ IF can_sleep(head_readiness)
       THEN /\ head_readiness' = SleepMarker
            /\ tail_readiness' = SleepMarker
       ELSE UNCHANGED <<head_readiness, tail_readiness>>
    /\ poller' = [poller EXCEPT ![p].pc = "select",
                                ![p].sleep = can_sleep(head_readiness)]
    /\ UNCHANGED <<next_readiness, awakened, nodeVars, handleVars, gateVars,
                   prod, ops, polls, touched, pending, histVars>>

\* the timeout poll2 passes to the selector (lines 481-495)
SelectTimeout(p) ==
    IF poller[p].timeout = "zero" \/ poller[p].sleep THEN poller[p].timeout
    ELSE "zero"

\* line 498: the selector clears the buffer, reports up to capacity native
\* events and whether the awakener fired. Without a timeout it returns only
\* once there is something to report.
Select(p) ==
    /\ poller[p].pc = "select"
    /\ \E k \in 0..MaxNative :
          /\ k <= poller[p].capacity
          /\ SelectTimeout(p) = "none" => (awakened \/ k >= 1)
          /\ poller' = [poller EXCEPT ![p].native = k, ![p].events = <<>>,
                ![p].res = awakened,
                ![p].pc = IF poller[p].sleep THEN "trsm_store"
                          ELSE AfterSelect(p, awakened, k)]
    /\ awakened' = FALSE
    /\ UNCHANGED <<queueVars, nodeVars, handleVars, gateVars, prod, ops, polls,
                   touched, pending, histVars>>

\* line 498: the selector returns an error; it reports nothing and leaves
\* the awakener as it is. poll2 still removes the sleep marker (lines 500-510)
\* and returns the error at line 512.
Select_Err(p) ==
    /\ poller[p].pc = "select"
    /\ poller' = [poller EXCEPT ![p].native = 0, ![p].events = <<>>,
          ![p].failed = TRUE,
          ![p].pc = IF poller[p].sleep THEN "trsm_store" ELSE "exit"]
    /\ UNCHANGED <<queueVars, awakened, nodeVars, handleVars, gateVars, prod, ops,
                   polls, touched, pending, histVars>>

\* ------------------------------- ReadinessQueue::try_remove_sleep_marker

\* line 1200
TryRemoveSleepMarker_Store(p) ==
    /\ poller[p].pc = "trsm_store"
    /\ next_readiness' = [next_readiness EXCEPT ![EndMarker] = Nil]
    /\ poller' = [poller EXCEPT ![p].pc = "trsm_cas"]
    /\ UNCHANGED <<head_readiness, tail_readiness, awakened, nodeVars,
                   handleVars, gateVars, prod, ops, polls, touched, pending, histVars>>

\* lines 1202-1210
TryRemoveSleepMarker_Cas(p) ==
    /\ poller[p].pc = "trsm_cas"
    /\ IF head_readiness = SleepMarker
       THEN /\ head_readiness' = EndMarker
            /\ tail_readiness' = EndMarker
       ELSE UNCHANGED <<head_readiness, tail_readiness>>
    /\ poller' = [poller EXCEPT ![p].pc =
                     IF poller[p].failed THEN "exit"
                     ELSE AfterSelect(p, poller[p].res, Len_events(p))]
    /\ UNCHANGED <<next_readiness, awakened, nodeVars, handleVars, gateVars,
                   prod, ops, polls, touched, pending, histVars>>

\* line 514: awakener.cleanup()
Awakener_Cleanup(p) ==
    /\ poller[p].pc = "cleanup"
    /\ poller' = [poller EXCEPT ![p].pc = DrainTop(p, Len_events(p))]
    /\ UNCHANGED <<queueVars, awakened, nodeVars, handleVars, gateVars, prod,
                   ops, polls, touched, pending, histVars>>

\* ------------------------------------------ ReadinessQueue::dequeue_node

\* lines 1139-1147, on the tail and the next pointer just loaded: Empty at
\* `until`, Data when the tail has a successor, else go and look at the head
Dequeue_Decide(p, tail, next) ==
    IF tail = poller[p].until
    THEN /\ poller' = [poller EXCEPT ![p].pc = "exit"]
         /\ UNCHANGED <<tail_readiness, woken>>
    ELSE IF next # Nil
    THEN /\ tail_readiness' = next
         /\ woken' = woken \ {tail}
         /\ poller' = [poller EXCEPT ![p].pc = "pr_load", ![p].ptr = tail]
    ELSE /\ poller' = [poller EXCEPT ![p].pc = "dq_head"]
         /\ UNCHANGED <<tail_readiness, woken>>

\* a dequeue that steps over the end marker only
is_marker_EndOnly(tail) == tail = EndMarker

\* line 1122: tail == self.end_marker() || tail == self.sleep_marker()
is_marker(tail) == tail \in Markers

\* lines 1119-1128: load the tail's next pointer; step over a marker
Dequeue_Load(p) ==
    LET tail == tail_readiness
        next == next_readiness[tail]
    IN /\ poller[p].pc = "dq_load"
       /\ IF is_marker(tail)
          THEN IF next = Nil
               THEN /\ poller' = [poller EXCEPT ![p].pc = "exit"]
                    /\ UNCHANGED <<tail_readiness, woken>>
               ELSE /\ tail_readiness' = next
                    /\ poller' = [poller EXCEPT ![p].pc = "dq_load2"]
                    /\ UNCHANGED woken
          ELSE Dequeue_Decide(p, tail, next)
       /\ UNCHANGED <<head_readiness, next_readiness, awakened, nodeVars,
                      handleVars, gateVars, prod, ops, polls, touched, pending,
                      cleared, quiet, released, undrained>>

\* line 1129: the next pointer of the node after the marker
Dequeue_Load2(p) ==
    /\ poller[p].pc = "dq_load2"
    /\ Dequeue_Decide(p, tail_readiness, next_readiness[tail_readiness])
    /\ UNCHANGED <<head_readiness, next_readiness, awakened, nodeVars,
                   handleVars, gateVars, prod, ops, polls, touched, pending,
                   cleared, quiet, released, undrained>>

\* line 1148: Inconsistent unless the tail is the head
Dequeue_Head(p) ==
    /\ poller[p].pc = "dq_head"
    /\ poller' = [poller EXCEPT ![p].pc =
          IF head_readiness # tail_readiness THEN "exit" ELSE "dq_push_store"]
    /\ UNCHANGED <<queueVars, awakened, nodeVars, handleVars, gateVars, prod,
                   ops, polls, touched, pending, histVars>>

\* line 1153, enqueue_node(end_marker): line 1103
Dequeue_PushStore(p) ==
    /\ poller[p].pc = "dq_push_store"
    /\ next_readiness' = [next_readiness EXCEPT ![EndMarker] = Nil]
    /\ poller' = [poller EXCEPT ![p].pc = "dq_push_swap"]
    /\ UNCHANGED <<head_readiness, tail_readiness, awakened, nodeVars,
                   handleVars, gateVars, prod, ops, polls, touched, pending, histVars>>

\* enqueue_node(end_marker): line 1106
Dequeue_PushSwap(p) ==
    /\ poller[p].pc = "dq_push_swap"
    /\ head_readiness' = EndMarker
    /\ poller' = [poller EXCEPT ![p].pc = "dq_push_link",
                                ![p].prev = head_readiness]
    /\ UNCHANGED <<tail_readiness, next_readiness, awakened, nodeVars,
                   handleVars, gateVars, prod, ops, polls, touched, pending, histVars>>

\* enqueue_node(end_marker): line 1110
Dequeue_PushLink(p) ==
    /\ poller[p].pc = "dq_push_link"
    /\ next_readiness' = [next_readiness EXCEPT ![poller[p].prev] = EndMarker]
    /\ poller' = [poller EXCEPT ![p].pc = "dq_load3", ![p].prev = Nil]
    /\ UNCHANGED <<head_readiness, tail_readiness, awakened, nodeVars,
                   handleVars, gateVars, prod, ops, polls, touched, pending, histVars>>

\* lines 1155-1162
Dequeue_Load3(p) ==
    LET tail == tail_readiness
        next == next_readiness[tail]
    IN /\ poller[p].pc = "dq_load3"
       /\ IF next # Nil
          THEN /\ tail_readiness' = next
               /\ woken' = woken \ {tail}
               /\ poller' = [poller EXCEPT ![p].pc = "pr_load", ![p].ptr = tail]
          ELSE /\ poller' = [poller EXCEPT ![p].pc = "exit"]
               /\ UNCHANGED <<tail_readiness, woken>>
       /\ UNCHANGED <<head_readiness, next_readiness, awakened, nodeVars,
                      handleVars, gateVars, prod, ops, polls, touched, pending,
                      cleared, quiet, released, undrained>>

\* -------------------------------------- ReadinessQueue::poll, one node

\* line 1006
Drain_Load(p) ==
    /\ poller[p].pc = "pr_load"
    /\ poller' = [poller EXCEPT ![p].pc = "pr_cas",
                                ![p].state = state[poller[p].ptr]]
    /\ undrained' = undrained \ {poller[p].ptr}
    /\ UNCHANGED <<queueVars, awakened, nodeVars, handleVars, gateVars, prod,
                   ops, polls, touched, pending, woken, cleared, quiet, released>>

\* a drain that dequeues every node as if it were edge-triggered
drain_next_Dequeue(s) == update_token_read_pos(set_dequeued(s))

\* a drain that leaves every node queued as if it were level-triggered
drain_next_KeepQueued(s) ==
    update_token_read_pos(IF effective_readiness(s) = {} THEN set_dequeued(s) ELSE s)

\* the state the drain proposes for a node it dequeued (lines 1029-1047)
drain_next(s) ==
    LET readiness == effective_readiness(s)
        n1 == IF is_edge(s.opts)
              THEN IF is_oneshot(s.opts) /\ readiness # {}
                   THEN disarm(set_dequeued(s))
                   ELSE set_dequeued(s)
              ELSE IF readiness = {} THEN set_dequeued(s) ELSE s
    IN update_token_read_pos(n1)

\* an event that carries the readiness whatever the interest
event_readiness_Raw(s) == s.readiness

\* the readiness the event will carry (line 1029)
event_readiness(s) == effective_readiness(s)

\* where the drain goes once the node's state is settled (lines 1063-1079)
AfterCas(p, nx, readiness) ==
    IF nx.queued THEN "rq_swap"
    ELSE IF readiness # {} THEN "pr_event"
    ELSE DrainTop(p, Len_events(p))

\* a drain that never remembers the node it requeued
set_until_Never(until, ptr, nx) == until

\* lines 1063-1067: the first node the drain requeues becomes `until`
set_until(until, ptr, nx) == IF nx.queued /\ until = Nil THEN ptr ELSE until

\* lines 1011-1067: a dropped node is released; otherwise the CAS loop, and
\* `until` is set when the node is to be requeued
Drain_Cas(p) ==
    LET ptr == poller[p].ptr
        s == poller[p].state
        nx == drain_next(s)
        readiness == event_readiness(s)
        until == set_until(poller[p].until, ptr, nx)
        \* the node's event is settled: an empty readiness from here on is news
        delivered == IF readiness = {} THEN cleared ELSE cleared \ {ptr}
        settled == IF AfterCas(p, nx, readiness) \in {"rq_swap", "pr_event"}
                   THEN [poller[p] EXCEPT !.pc = AfterCas(p, nx, readiness),
                           !.next = nx, !.readiness = readiness,
                           !.fresh = token[ptr][state[ptr].token_write_pos + 1],
                           !.until = until]
                   ELSE [poller[p] EXCEPT !.pc = AfterCas(p, nx, readiness),
                           !.ptr = Nil, !.state = IdlePoller.state]
    IN /\ poller[p].pc = "pr_cas"
       /\ IF is_dropped(s)
          THEN /\ release_node(ptr)
               /\ released' = [released EXCEPT ![ptr] = @ + 1]
               /\ poller' = [poller EXCEPT ![p].pc = DrainTop(p, Len_events(p)),
                                ![p].ptr = Nil, ![p].state = IdlePoller.state]
               /\ UNCHANGED <<state, pending, cleared>>
          ELSE IF s = nx
          THEN /\ poller' = [poller EXCEPT ![p] = settled]
               /\ pending' = IF state[ptr] = s THEN pending \ {ptr} ELSE pending
               /\ cleared' = delivered
               /\ UNCHANGED <<state, ref_count, alloc, released>>
          ELSE IF state[ptr] = s
          THEN /\ state' = [state EXCEPT ![ptr] = nx]
               /\ poller' = [poller EXCEPT ![p] = settled]
               /\ pending' = pending \ {ptr}
               /\ cleared' = IF effective_readiness(nx) = {}
                             THEN cleared \cup {ptr} ELSE delivered
               /\ UNCHANGED <<ref_count, alloc, released>>
          ELSE /\ poller' = [poller EXCEPT ![p].state = state[ptr]]
               /\ UNCHANGED <<state, pending, cleared, ref_count, alloc, released>>
       /\ UNCHANGED <<queueVars, awakened, token, update_lock, num_registration,
                      handleVars, gateVars, prod, ops, polls, touched, woken,
                      quiet, undrained>>

\* line 1070, enqueue_node(node): lines 1103-1106
Requeue_Swap(p) ==
    LET ptr == poller[p].ptr
    IN /\ poller[p].pc = "rq_swap"
       /\ next_readiness' = [next_readiness EXCEPT ![ptr] = Nil]
       /\ head_readiness' = ptr
       /\ poller' = [poller EXCEPT ![p].pc = "rq_link",
                                   ![p].prev = head_readiness]
       /\ UNCHANGED <<tail_readiness, awakened, nodeVars, handleVars, gateVars,
                      prod, ops, polls, touched, pending, histVars>>

\* enqueue_node(node): line 1110
Requeue_Link(p) ==
    /\ poller[p].pc = "rq_link"
    /\ next_readiness' = [next_readiness EXCEPT ![poller[p].prev] = poller[p].ptr]
    /\ poller' = [poller EXCEPT ![p] =
          IF poller[p].readiness # {}
          THEN [@ EXCEPT !.prev = Nil, !.pc = "pr_event"]
          ELSE [@ EXCEPT !.prev = Nil, !.pc = DrainTop(p, Len_events(p)),
                  !.ptr = Nil, !.state = IdlePoller.state,
                  !.next = IdlePoller.next, !.fresh = 0]]
    /\ UNCHANGED <<head_readiness, tail_readiness, awakened, nodeVars,
                   handleVars, gateVars, prod, ops, polls, touched, pending, histVars>>

\* the slot the drain reads the event's token from (line 1075)
event_token_pos(nx) == nx.token_read_pos

\* lines 1073-1079: read the token, push the event. `fresh` remembers the token
\* that slot token_write_pos held when the node's state was settled.
Drain_Event(p) ==
    LET ptr == poller[p].ptr
        ev == [node |-> ptr, readiness |-> poller[p].readiness,
               token |-> token[ptr][event_token_pos(poller[p].next) + 1],
               fresh |-> poller[p].fresh]
    IN /\ poller[p].pc = "pr_event"
       /\ poller' = [poller EXCEPT ![p].events = Append(@, ev),
             ![p].pc = DrainTop(p, Len_events(p) + 1),
             ![p].ptr = Nil, ![p].state = IdlePoller.state,
             ![p].next = IdlePoller.next, ![p].readiness = {}, ![p].fresh = 0]
       /\ UNCHANGED <<queueVars, awakened, nodeVars, handleVars, gateVars, prod,
                      ops, polls, touched, pending, histVars>>

\* lines 465-468: clear the lock bit; waiters, if any, are notified next
Poll_Exit(p) ==
    /\ poller[p].pc = "exit"
    /\ lock_state' = IF lock_state % 2 = 1 THEN lock_state - 1 ELSE lock_state
    /\ poller' = [poller EXCEPT ![p] =
          IF lock_state # 1 THEN [IdlePoller EXCEPT !.pc = "notify"]
          ELSE IdlePoller]
    /\ undrained' = IF poller[p].failed THEN {n \in Nodes : InQueue(n)}
                    ELSE undrained
    /\ UNCHANGED <<queueVars, awakened, nodeVars, handleVars, lock, condvar,
                   prod, ops, polls, touched, pending, woken, cleared, quiet,
                   released>>

\* line 467: condvar.notify_one()
Poll_Notify(p) ==
    /\ poller[p].pc = "notify"
    /\ IF condvar.waiting = {}
       THEN UNCHANGED condvar
       ELSE \E w \in condvar.waiting :
               condvar' = [waiting |-> condvar.waiting \ {w},
                           notified |-> condvar.notified \cup {w}]
    /\ poller' = [poller EXCEPT ![p] = IdlePoller]
    /\ UNCHANGED <<queueVars, awakened, nodeVars, handleVars, lock_state, lock,
                   prod, ops, polls, touched, pending, histVars>>

\* ------------------------------------------- Poll::poll, the slow path

\* a gate whose lock bit is never looked at
is_unlocked_Always(curr) == TRUE

\* line 380: the lock bit of a lock_state value is clear
is_unlocked(curr) == curr % 2 = 0

\* line 375: self.lock.lock()
Gate_Lock(p) ==
    /\ poller[p].pc = "gate_lock"
    /\ lock = Nil
    /\ lock' = p
    /\ poller' = [poller EXCEPT ![p].pc = "gate_loop", ![p].inc = FALSE]
    /\ UNCHANGED <<queueVars, awakened, nodeVars, handleVars, lock_state, condvar,
                   prod, ops, polls, touched, pending, histVars>>

\* lines 379-424, one turn of the loop, on the thread's `curr`
Gate_Loop(p) ==
    LET curr == poller[p].curr
        inc == poller[p].inc
    IN /\ poller[p].pc = "gate_loop"
       /\ IF is_unlocked(curr)
          THEN \* the lock looks free: try to take it (lines 381-397)
               LET next == (curr + 1) - (IF inc THEN 2 ELSE 0)
               IN IF lock_state = curr
                  THEN /\ lock_state' = next
                       /\ lock' = Nil
                       /\ poller' = [poller EXCEPT
                             ![p].pc = Poll2Entry(poller[p].timeout)]
                  ELSE /\ poller' = [poller EXCEPT ![p].curr = lock_state]
                       /\ UNCHANGED <<lock_state, lock>>
          ELSE IF poller[p].timeout = "zero"
          THEN \* lines 399-402: return Ok(0)
               /\ lock' = Nil
               /\ poller' = [poller EXCEPT ![p] = IdlePoller]
               /\ UNCHANGED lock_state
          ELSE IF ~inc
          THEN \* lines 407-424: count this thread as a waiter
               IF lock_state = curr
               THEN /\ lock_state' = curr + 2
                    /\ poller' = [poller EXCEPT ![p].inc = TRUE,
                                                ![p].pc = "gate_wait"]
                    /\ UNCHANGED lock
               ELSE /\ poller' = [poller EXCEPT ![p].curr = lock_state]
                    /\ UNCHANGED <<lock_state, lock>>
          ELSE /\ poller' = [poller EXCEPT ![p].pc = "gate_wait"]
               /\ UNCHANGED <<lock_state, lock>>
       /\ UNCHANGED <<queueVars, awakened, nodeVars, handleVars, condvar, prod,
                      ops, polls, touched, pending, histVars>>

\* lines 432, 455: condvar.wait releases the mutex and blocks
Gate_Wait(p) ==
    /\ poller[p].pc = "gate_wait"
    /\ lock' = Nil
    /\ condvar' = [condvar EXCEPT !.waiting = @ \cup {p}]
    /\ poller' = [poller EXCEPT ![p].pc = "gate_waiting"]
    /\ UNCHANGED <<queueVars, awakened, nodeVars, handleVars, lock_state, prod,
                   ops, polls, touched, pending, histVars>>

\* a notified waiter leaves the wait; with a timeout the time may be up
\* (lines 435-449)
Gate_Notified(p) ==
    /\ poller[p].pc = "gate_waiting"
    /\ p \in condvar.notified
    /\ condvar' = [condvar EXCEPT !.notified = @ \ {p}]
    /\ \E late \in (IF poller[p].timeout = "finite" THEN BOOLEAN ELSE {FALSE}) :
          poller' = [poller EXCEPT ![p].pc = "gate_relock",
                                   ![p].timed_out = late]
    /\ UNCHANGED <<queueVars, awakened, nodeVars, handleVars, lock_state, lock,
                   prod, ops, polls, touched, pending, histVars>>

\* wait_timeout's time runs out (line 435)
Gate_TimedOut(p) ==
    /\ poller[p].pc = "gate_waiting"
    /\ p \in condvar.waiting
    /\ poller[p].timeout = "finite"
    /\ condvar' = [condvar EXCEPT !.waiting = @ \ {p}]
    /\ poller' = [poller EXCEPT ![p].pc = "gate_relock", ![p].timed_out = TRUE]
    /\ UNCHANGED <<queueVars, awakened, nodeVars, handleVars, lock_state, lock,
                   prod, ops, polls, touched, pending, histVars>>

\* the wait returns holding the mutex again; the loop goes on with `curr` as
\* it was (line 458)
Gate_Relock(p) ==
    /\ poller[p].pc = "gate_relock"
    /\ lock = Nil
    /\ lock' = p
    /\ poller' = [poller EXCEPT ![p].pc =
          IF poller[p].timed_out THEN "gate_expired" ELSE "gate_loop"]
    /\ UNCHANGED <<queueVars, awakened, nodeVars, handleVars, lock_state, condvar,
                   prod, ops, polls, touched, pending, histVars>>

\* a timed-out waiter that leaves its count behind
remove_waiter_Keep(curr) == curr

\* lines 437, 447: lock_state.fetch_sub(2)
remove_waiter(curr) == curr - 2

\* lines 436-438, 446-448: give up the waiter count and return Ok(0)
Gate_Expired(p) ==
    /\ poller[p].pc = "gate_expired"
    /\ lock_state' = remove_waiter(lock_state)
    /\ lock' = Nil
    /\ poller' = [poller EXCEPT ![p] = IdlePoller]
    /\ UNCHANGED <<queueVars, awakened, nodeVars, handleVars, condvar, prod, ops,
                   polls, touched, pending, histVars>>

\* ------------------------------------------------------- specifications

\* set_readiness on one of the nodes N, with the enqueue it may end in; the
\* wakeup that follows an enqueue behind the sleep marker is Enqueue_Wakeup
SetReadinessCall(t, N) ==
    \/ \E n \in N, ready \in ReadyInputs : SetReadiness_Load(t, n, ready)
    \/ SetReadiness_Cas(t)
    \/ Enqueue_Swap(t)
    \/ Enqueue_Link(t)

\* update or deregister on one of the nodes N
UpdateCall(t, N) ==
    \/ \E n \in N, poll \in Polls, tok \in UpdateTokens,
          interest \in InterestInputs, opt \in OptInputs :
             Update_Lock(t, n, poll, tok, interest, opt)
    \/ \E n \in N, poll \in Polls : Registration_deregister(t, n, poll)
    \/ Update_Err(t)
    \/ Update_Discard(t)
    \/ Update_Load(t)
    \/ Update_Write(t)
    \/ Update_Cas(t)
    \/ Update_Unlock(t)

\* the handles of one of the nodes N dropped or cloned
HandleCall(t, N) ==
    \/ \E n \in N : Registration_Drop(t, n)
    \/ RegistrationInner_Drop(t)

SetReadinessHandle(N) ==
    \/ \E n \in N : SetReadiness_Drop(n)
    \/ \E n \in N : SetReadiness_Clone(n)

\* poll2 and the drain, by the thread that is past the gate
Body(p) ==
    \/ PrepareForSleep_Store(p)
    \/ PrepareForSleep_Cas(p)
    \/ Select(p)
    \/ TryRemoveSleepMarker_Store(p)
    \/ TryRemoveSleepMarker_Cas(p)
    \/ Dequeue_Load(p)
    \/ Poll_Exit(p)

Drain(p) ==
    \/ Awakener_Cleanup(p)
    \/ Dequeue_Load2(p)
    \/ Dequeue_Head(p)
    \/ Dequeue_PushStore(p)
    \/ Dequeue_PushSwap(p)
    \/ Dequeue_PushLink(p)
    \/ Dequeue_Load3(p)
    \/ Drain_Load(p)
    \/ Drain_Cas(p)
    \/ Requeue_Swap(p)
    \/ Requeue_Link(p)
    \/ Drain_Event(p)

Gate(p) ==
    \/ Gate_Lock(p)
    \/ Gate_Loop(p)
    \/ Gate_Wait(p)
    \/ Gate_Notified(p)
    \/ Gate_TimedOut(p)
    \/ Gate_Relock(p)
    \/ Gate_Expired(p)
    \/ Poll_Notify(p)

PollCall(p, timeouts, capacities) ==
    \E timeout \in timeouts, capacity \in capacities : Poll_Enter(p, timeout, capacity)

\* every node registered with any of the options; only the first node varies
AnyOpts == [n \in Nodes |-> OptInputs]
FirstOpts == [n \in Nodes |-> IF n = "n1" THEN OptInputs ELSE {{Edge}}]
EdgeOpts == [n \in Nodes |-> {{Edge}}]

\* the queue: one polling thread, set_readiness from every producer on every node
Init == Created(AnyOpts) /\ ops = MaxOps /\ polls = MaxPolls

Next ==
    \/ \E t \in Producers : SetReadinessCall(t, Nodes)
    \/ \E t \in Producers : Enqueue_Wakeup(t)
    \/ PollCall(Consumer, Timeouts, Capacities)
    \/ Body(Consumer)
    \/ Drain(Consumer)

Spec == Init /\ [][Next]_vars

\* update: one polling thread, update, deregister and set_readiness on one node
InitUpdate == Created(FirstOpts) /\ ops = MaxUpdateOps /\ polls = MaxUpdatePolls

NextUpdate ==
    \/ \E t \in Producers : UpdateCall(t, {"n1"})
    \/ \E t \in Producers : SetReadinessCall(t, {"n1"})
    \/ \E t \in Producers : Enqueue_Wakeup(t)
    \/ PollCall(Consumer, Timeouts, Capacities)
    \/ Body(Consumer)
    \/ Drain(Consumer)

SpecUpdate == InitUpdate /\ [][NextUpdate]_vars

\* lifecycle: one thread polling without blocking, the handles of the first
\* node dropped and cloned, set_readiness on every node
InitDrop == Created(FirstOpts) /\ ops = MaxDropOps /\ polls = MaxDropPolls

\* poll2 with a zero timeout: no sleep marker, no wakeup
BodyNonBlocking(p) ==
    \/ Select(p)
    \/ Dequeue_Load(p)
    \/ Poll_Exit(p)

DrainNonBlocking(p) ==
    \/ Dequeue_Load2(p)
    \/ Dequeue_Head(p)
    \/ Dequeue_PushStore(p)
    \/ Dequeue_PushSwap(p)
    \/ Dequeue_PushLink(p)
    \/ Dequeue_Load3(p)
    \/ Drain_Load(p)
    \/ Drain_Cas(p)
    \/ Requeue_Swap(p)
    \/ Requeue_Link(p)
    \/ Drain_Event(p)

NextDrop ==
    \/ \E t \in Producers : HandleCall(t, {"n1"})
    \/ SetReadinessHandle({"n1"})
    \/ \E t \in Producers : SetReadinessCall(t, Nodes)
    \/ PollCall(Consumer, {"zero"}, {MaxCapacity})
    \/ BodyNonBlocking(Consumer)
    \/ DrainNonBlocking(Consumer)

SpecDrop == InitDrop /\ [][NextDrop]_vars

\* the gate: several threads calling Poll::poll, no handle in use
InitGate == Created(EdgeOpts) /\ ops = 0 /\ polls = MaxGatePolls

NextGate ==
    \E p \in Pollers : PollCall(p, Timeouts, Capacities) \/ Body(p) \/ Gate(p)

SpecGate == InitGate /\ [][NextGate]_vars

\* oneshot: one thread polling without blocking, set_readiness on the first
\* node, registered with options that include oneshot
OneshotOpts == [n \in Nodes |-> IF n = "n1" THEN OneshotInputs ELSE {{Edge}}]

InitOneshot ==
    Created(OneshotOpts) /\ ops = MaxOneshotOps /\ polls = MaxOneshotPolls

NextOneshot ==
    \/ \E t \in Producers : SetReadinessCall(t, {"n1"})
    \/ PollCall(Consumer, {"zero"}, Capacities)
    \/ BodyNonBlocking(Consumer)
    \/ DrainNonBlocking(Consumer)

SpecOneshot == InitOneshot /\ [][NextOneshot]_vars

\* the drain of level-triggered nodes: one thread polling without blocking,
\* every node level-triggered, set_readiness on every node; the polling thread
\* keeps running its own loop
LevelOpts == [n \in Nodes |-> {{Level}}]

InitLevel == Created(LevelOpts) /\ ops = MaxLevelOps /\ polls = MaxLevelPolls

NextLevel ==
    \/ \E t \in Producers : SetReadinessCall(t, Nodes)
    \/ PollCall(Consumer, {"zero"}, Capacities)
    \/ BodyNonBlocking(Consumer)
    \/ DrainNonBlocking(Consumer)

SpecLevel ==
    /\ InitLevel
    /\ [][NextLevel]_vars
    /\ WF_vars(BodyNonBlocking(Consumer) \/ DrainNonBlocking(Consumer))

\* selector failure: several threads calling Poll::poll, whose selector call
\* may fail, and set_readiness on the first node
InitSelect == Created(FirstOpts) /\ ops = MaxSelectOps /\ polls = MaxSelectPolls

NextSelect ==
    \/ \E t \in Producers : SetReadinessCall(t, {"n1"})
    \/ \E t \in Producers : Enqueue_Wakeup(t)
    \/ \E p \in Pollers : PollCall(p, Timeouts, {MaxCapacity})
    \/ \E p \in Pollers : Select_Err(p)
    \/ \E p \in Pollers : Body(p) \/ Drain(p) \/ Gate(p)

SpecSelect == InitSelect /\ [][NextSelect]_vars

\* the state word: every operation that writes it, on the first node, with one
\* thread polling without blocking
InitFrame == Created(FirstOpts) /\ ops = MaxFrameOps /\ polls = MaxFramePolls

NextFrame ==
    \/ \E t \in Producers : SetReadinessCall(t, {"n1"})
    \/ \E t \in Producers : UpdateCall(t, {"n1"})
    \/ \E t \in Producers : HandleCall(t, {"n1"})
    \/ PollCall(Consumer, {"zero"}, {MaxCapacity})
    \/ BodyNonBlocking(Consumer)
    \/ DrainNonBlocking(Consumer)

SpecFrame == InitFrame /\ [][NextFrame]_vars

\* the token slots: update on the first node, from a state word with any token
\* positions
TokenPositions == 0..2

InitTokenPos == CreatedAt(FirstOpts, TokenPositions) /\ ops = MaxTokenOps /\ polls = 0

NextTokenPos == \E t \in Producers : UpdateCall(t, {"n1"})

SpecTokenPos == InitTokenPos /\ [][NextTokenPos]_vars

\* ---------------------------------------------------------------- claims

\* the buffer of the polling thread, and what the caller will count
Events == poller[Consumer].events
EventsOf(n) == {i \in 1..Len(Events) : Events[i].node = n}
SpareCapacity == Len_events(Consumer) < poller[Consumer].capacity

\* a producer is between its state CAS and the end of its enqueue
Enqueueing == \E t \in Producers : prod[t].pc \in {"enq_swap", "enq_link"}

\* the consumer is between dequeuing a node and being done with it, or is in
\* the middle of pushing the end marker
ConsumerBusy ==
    poller[Consumer].ptr # Nil \/
    poller[Consumer].pc \in {"dq_push_store", "dq_push_swap", "dq_push_link"}

\* the steps of poll2 and of the drain
BodyPcs ==
    {"pfs_store", "pfs_cas", "select", "trsm_store", "trsm_cas", "cleanup",
     "dq_load", "dq_load2", "dq_head", "dq_push_store", "dq_push_swap",
     "dq_push_link", "dq_load3", "pr_load", "pr_cas", "rq_swap", "rq_link",
     "pr_event", "exit"}
InBody(p) == poller[p].pc \in BodyPcs

\* C1: no pending readiness is lost: when a poll that no producer step
\* overlapped returns with room left in its buffer, no node is left whose
\* non-empty effective readiness still awaits delivery.
C1_NoLostReadiness ==
    (poller[Consumer].pc = "exit" /\ touched = {} /\ SpareCapacity)
        => pending = {}

\* C2: a blocking poll never blocks while a node is pending: whenever
\* prepare_for_sleep's CAS of the head from end_marker to sleep_marker is about
\* to succeed, the consumer's tail is end_marker, end_marker.next is nil and no
\* registration node is linked behind the tail.
C2_SleepOnlyWhenEmpty ==
    (poller[Consumer].pc = "pfs_cas" /\ head_readiness = EndMarker)
        => /\ tail_readiness = EndMarker
           /\ next_readiness[EndMarker] = Nil
           /\ \A n \in Nodes : ~InQueue(n)

\* C3: sleep/wake handshake: the events returned by a poll that slept and was
\* woken through the awakener carry the node's readiness and its token, the
\* token its slot token_write_pos held when the consumer settled the node.
C3_WokenPollDelivers ==
    (poller[Consumer].sleep /\ poller[Consumer].res)
        => \A i \in 1..Len(Events) :
              /\ Events[i].readiness # {}
              /\ Events[i].token = Events[i].fresh

\* C4: awakener necessity: an enqueue goes on to awakener.wakeup() exactly when
\* its head swap returned the sleep marker, the wakeup is done before the call
\* returns, and nothing else fires the awakener.
C4_WakeupIffSleepMarker ==
    [][\A t \in Producers :
          /\ (prod[t].pc = "enq_link" /\ prod'[t].pc # "enq_link")
                => /\ prod[t].prev = SleepMarker => prod'[t].pc = "enq_wakeup"
                   /\ prod[t].prev # SleepMarker => prod'[t].pc = "idle"
          /\ (prod[t].pc = "enq_wakeup" /\ prod'[t].pc # "enq_wakeup")
                => awakened' /\ prod[t].prev = SleepMarker
          /\ (awakened' /\ ~awakened)
                => \E u \in Producers : prod[u].pc = "enq_wakeup"]_vars

C4_Witness ==
    \E t \in Producers :
        /\ prod[t].pc = "enq_wakeup"
        /\ prod[t].prev = SleepMarker
        /\ poller[Consumer].pc = "select"
        /\ poller[Consumer].sleep

\* C5: entry-gate mutual exclusion: at most one thread at a time is in the
\* poll body (selector call, sleep-marker handling, queue drain).
C5_MutualExclusion ==
    Cardinality({p \in Pollers : InBody(p)}) <= 1

C5_Witness ==
    \E p, q \in Pollers :
        /\ InBody(p)
        /\ poller[q].pc = "gate_waiting"
        /\ lock_state >= 3

\* C6: entry-gate liveness: a caller without a timeout that waits on the
\* condvar is never left waiting, un-notified, in front of an unlocked gate
\* with no other thread on its way in or out.
C6_WaiterAdmitted ==
    \A p \in Pollers :
        (/\ poller[p].pc = "gate_waiting"
         /\ poller[p].timeout = "none"
         /\ p \in condvar.waiting
         /\ is_unlocked(lock_state))
            => \E q \in Pollers \ {p} :
                  /\ poller[q].pc # "idle"
                  /\ ~(poller[q].pc = "gate_waiting" /\ q \in condvar.waiting)

\* C7: token freshness: the token an event carries is the token that slot
\* token_write_pos held at the consumer's CAS for that dequeue.
C7_TokenFresh ==
    \A i \in 1..Len(Events) : Events[i].token = Events[i].fresh

\* C8: no use-after-free: a deallocated node has no handle method in progress
\* on it, is not linked in the queue, is not the head, is not the `prev` of an
\* unfinished enqueue, and is not held by the consumer, `until` included.
C8_NoUseAfterFree ==
    \A n \in Nodes :
        alloc[n] = "freed" =>
            /\ ref_count[n] = 0
            /\ \A t \in Producers : prod[t].node # n /\ prod[t].prev # n
            /\ ~InQueue(n)
            /\ head_readiness # n
            /\ poller[Consumer].ptr # n
            /\ poller[Consumer].prev # n
            /\ poller[Consumer].until # n

C8_Witness ==
    \E n \in Nodes :
        /\ alloc[n] = "freed"
        /\ state[n].queued
        /\ poller[Consumer].pc \in {"dq_load", "dq_load2", "dq_head"}

\* C9: at-most-one-queued: whenever no producer is between its state CAS and
\* the end of its enqueue and the consumer holds no dequeued node, a node's
\* queued bit is set if and only if the node is reachable from the tail.
C9_QueuedIffInQueue ==
    (~Enqueueing /\ ~ConsumerBusy)
        => \A n \in Nodes : state[n].queued <=> InQueue(n)

C11_CoalescedReadiness ==
    [][LET c == poller[Consumer]
           d == poller'[Consumer]
       IN /\ Len(d.events) > Len(c.events)
                => /\ d.events = Append(c.events, d.events[Len(d.events)])
                   /\ d.events[Len(d.events)].node = c.ptr
                   /\ d.events[Len(d.events)].readiness = c.readiness
                   /\ c.ptr # Nil /\ d.ptr = Nil
          /\ (c.pc = "pr_cas" /\ d.pc \in {"rq_swap", "pr_event"})
                => /\ d.readiness = effective_readiness(c.state)
                   /\ state' # state
                         => d.readiness = effective_readiness(state[c.ptr])]_vars

C11_Witness ==
    /\ Len(Events) = 1
    /\ Events[1].readiness = effective_readiness(state[Events[1].node])
    /\ ops = 0
    /\ \A t \in Producers : prod[t].pc = "idle"
    /\ touched = {}
    /\ pending = {}

\* C12: delivery ordering: a node whose producer has published queued = 1,
\* finished its enqueue behind the sleep marker and fired the awakener is
\* dequeued by the next drain: when a poll that started after the wakeup, and
\* that no producer step overlapped, returns with room left in its buffer, no
\* such node is still waiting to be dequeued.
C12_WokenNodeDequeued ==
    (poller[Consumer].pc = "exit" /\ touched = {} /\ SpareCapacity)
        => woken = {}

\* the consumer settles an edge-triggered node with a non-empty readiness: an
\* event for the node follows
EdgeEventSettled ==
    /\ poller[Consumer].pc = "pr_cas"
    /\ poller'[Consumer].pc \in {"rq_swap", "pr_event"}
    /\ poller'[Consumer].readiness # {}
    /\ is_edge(poller[Consumer].state.opts)

\* C13 as stated: an edge-triggered registration gets an event only on a rising
\* edge: once an event has been settled, the next one needs the effective
\* readiness to have been empty in between.
C13_EventNeedsRisingEdge ==
    [][EdgeEventSettled => poller[Consumer].ptr \in cleared]_vars

\* C13 amended: an edge-triggered registration gets an event only after a
\* set_readiness or update call that wrote a non-empty effective readiness
\* since its last event was settled; polls alone deliver nothing more.
C13_EventNeedsNewWrite ==
    [][EdgeEventSettled => poller[Consumer].ptr \in pending]_vars

C13_Witness ==
    \E n \in Nodes :
        /\ is_edge(state[n].opts)
        /\ ~state[n].queued
        /\ effective_readiness(state[n]) # {}
        /\ n \notin pending
        /\ poller[Consumer].pc = "exit"
        /\ EventsOf(n) = {}
        /\ touched = {}
        /\ SpareCapacity

\* a level-triggered node (not edge-triggered) whose effective readiness is
\* non-empty
LevelReady(n) ==
    ~is_edge(state[n].opts) /\ effective_readiness(state[n]) # {}

\* C14: level-triggered delivery: when a poll that no producer step overlapped
\* returns, every level-triggered node with a non-empty effective readiness
\* that the poll could reach with room in the buffer has an event in it, and
\* every such node that got an event still has queued = 1 and is linked in the
\* queue again, where the next poll finds it with no set_readiness call.
C14_LevelEveryPoll ==
    (poller[Consumer].pc = "exit" /\ touched = {})
        => \A n \in Nodes :
              LevelReady(n)
                 => /\ (SpareCapacity /\ InQueue(n)) => EventsOf(n) # {}
                    /\ EventsOf(n) # {} => (state[n].queued /\ InQueue(n))

C14_Witness ==
    \E n \in Nodes :
        /\ LevelReady(n)
        /\ poller[Consumer].pc = "exit"
        /\ touched = {}
        /\ polls = 0
        /\ ops = MaxOps - 1
        /\ EventsOf(n) # {}
        /\ poller[Consumer].until = n
        /\ n \notin pending

\* C15: oneshot: the delivery of an event to a registration whose options
\* include oneshot clears its interest, so that nothing more is delivered
\* until an update: every event in the buffer for such a registration has left
\* the node without interest.
C15_OneshotDisarms ==
    \A i \in 1..Len(Events) :
        is_oneshot(state[Events[i].node].opts)
            => state[Events[i].node].interest = {}

\* C16: dropped registrations are silent: a node whose last Registration was
\* dropped before the current poll started has no event in the buffer,
\* whatever readiness was pending at the drop and whatever set_readiness calls
\* have been made since.
C16_DroppedIsSilent ==
    \A n \in Nodes : (n \in quiet /\ state[n].dropped) => EventsOf(n) = {}

C16_Witness ==
    \E n \in Nodes :
        /\ n \in quiet
        /\ state[n].dropped
        /\ state[n].queued
        /\ effective_readiness(state[n]) # {}
        /\ ~InQueue(n)
        /\ head_readiness # n
        /\ \A t \in Producers : prod[t].pc = "idle"
        /\ poller[Consumer].pc = "exit"

\* the poll of the consumer returns without blocking, and no handle call
\* overlapped it or is still running
QuietReturn ==
    /\ poller[Consumer].pc = "exit"
    /\ poller[Consumer].timeout = "zero"
    /\ touched = {}
    /\ \A t \in Producers : prod[t].pc = "idle"

\* C17: round trip without spurious events: a non-blocking poll before any
\* set_readiness call returns no event; after exactly one set_readiness(R)
\* call, a non-blocking poll returns no event for the nodes left without
\* readiness, at most one event for the node R was set on, exactly one when it
\* is the first poll since Registration::new, the event carries R /\ interest
\* and the token given to Registration::new, and R no longer awaits delivery.
C17_RoundTrip ==
    QuietReturn =>
        /\ ops = MaxOps => Events = <<>>
        /\ (ops = MaxOps - 1 /\ polls >= MaxPolls - 2 /\ SpareCapacity)
              => \A n \in Nodes :
                    /\ state[n].readiness = {} => EventsOf(n) = {}
                    /\ state[n].readiness # {}
                          => /\ n \notin pending
                             /\ Cardinality(EventsOf(n)) <= 1
                             /\ polls = MaxPolls - 1
                                   => Cardinality(EventsOf(n)) = 1
                    /\ \A i \in EventsOf(n) :
                          /\ Events[i].readiness =
                                state[n].readiness \cap UNION InterestInputs
                          /\ Events[i].token = NewToken

C17_Witness ==
    /\ QuietReturn
    /\ ops = MaxOps - 1
    /\ polls = MaxPolls - 2
    /\ SpareCapacity
    /\ \E n \in Nodes : Cardinality(EventsOf(n)) = 1 /\ is_edge(state[n].opts)

\* the consumer takes node n off the queue
Dequeues(n) == poller[Consumer].ptr = Nil /\ poller'[Consumer].ptr = n

C19_CapacityBound ==
    /\ Len_events(Consumer) <= poller[Consumer].capacity
    /\ poller[Consumer].ptr \in Nodes => SpareCapacity
    /\ (poller[Consumer].pc = "exit" /\ ~Enqueueing)
          => \A n \in Nodes :
                (state[n].queued /\ EventsOf(n) = {}) => InQueue(n)

\* the part of C19 that is about the buffer alone
C19_BufferWithinCapacity ==
    /\ Len_events(Consumer) <= poller[Consumer].capacity
    /\ poller[Consumer].ptr \in Nodes => SpareCapacity

\* C20: deregister disables the registration: once the update made by
\* Registration::deregister has been applied, the node's interest and options
\* are empty, and a poll that starts while the registration is disabled has no
\* event for it, whatever set_readiness writes, for as long as no later update
\* enables it again.
C20_DeregisterDisables ==
    /\ \A t \in Producers :
          (prod[t].pc = "up_unlock" /\ prod[t].interest = {} /\ prod[t].opt = {})
             => /\ state[prod[t].node].interest = {}
                /\ state[prod[t].node].opts = {}
    /\ \A n \in Nodes :
          (n \in quiet /\ ~state[n].dropped) => EventsOf(n) = {}

\* a poll that started after the deregister returns with no event for the
\* node although its readiness is set
C20_Witness ==
    /\ poller[Consumer].pc = "exit"
    /\ "n1" \in quiet
    /\ state["n1"].interest = {}
    /\ state["n1"].opts = {}
    /\ state["n1"].readiness # {}
    /\ ~state["n1"].dropped
    /\ EventsOf("n1") = {}
    /\ \A t \in Producers : prod[t].pc = "idle"

\* thread t is inside the critical section of update for node n
InCriticalSection(t, n) ==
    /\ prod[t].node = n
    /\ prod[t].pc \in {"up_load", "up_write", "up_cas", "up_unlock"}

\* thread t found update_lock held, or returns from having found it held
Discards(t) == prod'[t].pc = "up_discard" \/ prod[t].pc = "up_discard"

\* C21: update serialization: at most one thread at a time is inside the
\* critical section of update for a node, update_lock is true exactly while a
\* thread is inside it, and an update call that finds update_lock held changes
\* neither the state word, nor a token slot, nor update_lock, nor the queue,
\* and goes on to enqueue nothing.
C21_UpdateSerialized ==
    /\ [](\A n \in Nodes :
            /\ Cardinality({t \in Producers : InCriticalSection(t, n)}) <= 1
            /\ update_lock[n] <=> \E t \in Producers : InCriticalSection(t, n))
    /\ [][\A t \in Producers :
            /\ (Discards(t) /\ prod'[t] # prod[t])
                  => UNCHANGED <<state, token, update_lock, queueVars, awakened>>
            /\ prod[t].pc = "up_discard" => prod'[t].pc \in {"up_discard", "idle"}]_vars

\* one thread holds update_lock while another call has found it held
C21_Witness ==
    \E t, u \in Producers :
        /\ InCriticalSection(t, "n1")
        /\ prod[t].pc = "up_cas"
        /\ update_lock["n1"]
        /\ prod[u].pc = "up_discard"
        /\ prod[u].node = "n1"

\* thread t is in an update or deregister call that was given another Poll
WrongPoll(t) == prod[t].op = "update" /\ prod[t].poll # ThisPoll

\* C22: wrong-poll rejection: an update or deregister call given a Poll other
\* than the one that created the registration goes only to its error return;
\* neither the step that rejects it nor the return changes the node's state
\* word, its token slots, update_lock, the readiness queue or the awakener,
\* and the call enqueues nothing.
C22_WrongPollRejected ==
    /\ [](\A t \in Producers : WrongPoll(t) => prod[t].pc = "up_err")
    /\ [][\A t \in Producers :
            /\ ((WrongPoll(t) \/ WrongPoll(t)') /\ prod'[t] # prod[t])
                  => UNCHANGED <<state, token, update_lock, queueVars, awakened>>
            /\ prod[t].pc = "up_err" => prod'[t].pc \in {"up_err", "idle"}]_vars

\* a call given the other Poll is at its error return while the node has
\* readiness that an accepted update would have enqueued
C22_Witness ==
    \E t \in Producers :
        /\ prod[t].pc = "up_err"
        /\ prod[t].poll = OtherPoll
        /\ prod[t].node = "n1"
        /\ ~update_lock["n1"]
        /\ state["n1"].readiness # {}
        /\ ~state["n1"].queued

\* C23: set_readiness on a dropped node is ignored: a step of the CAS loop of
\* set_readiness taken while the node's dropped bit is set leaves the state
\* word (readiness and queued included), the queue and the awakener unchanged,
\* and the call goes on to return, never to an enqueue or a wakeup.
C23_DroppedSetReadinessIgnored ==
    [][\A t \in Producers :
          (/\ prod[t].pc = "sr_cas"
           /\ state[prod[t].node].dropped
           /\ prod'[t] # prod[t])
             => /\ UNCHANGED <<state, queueVars, awakened>>
                /\ prod'[t].pc \in {"sr_cas", "idle"}]_vars

\* a set_readiness call has loaded a dropped state and would change the
\* node's readiness to a non-empty effective readiness
C23_Witness ==
    \E t \in Producers :
        /\ prod[t].pc = "sr_cas"
        /\ prod[t].state = state[prod[t].node]
        /\ state[prod[t].node].dropped
        /\ ~state[prod[t].node].queued
        /\ alloc[prod[t].node] # "freed"
        /\ effective_readiness(set_readiness_next(prod[t].state, prod[t].ready)) # {}

\* thread p called poll with a zero timeout and is on the slow path of the gate
ZeroAtGate(p) ==
    poller[p].timeout = "zero" /\ poller[p].pc \in {"gate_lock", "gate_loop"}

\* the number of waiting threads in a lock_state value (line 409: curr + 2)
waiters(curr) == curr \div 2

\* C24: non-blocking contention: a poll with a zero timeout never counts
\* itself as a waiter and never waits on the condvar; while it is on the slow
\* path its steps leave the waiter count, the condvar, the awakener, the
\* readiness queue and its event buffer unchanged; and the turn of the loop on
\* which it finds the lock bit set returns at once with lock_state unchanged.
C24_ZeroTimeoutNeverWaits ==
    /\ [](\A p \in Pollers :
            poller[p].timeout = "zero"
               => /\ ~poller[p].inc
                  /\ poller[p].pc \notin
                        {"gate_wait", "gate_waiting", "gate_relock", "gate_expired"})
    /\ [][\A p \in Pollers :
            (ZeroAtGate(p) /\ poller'[p] # poller[p])
               => /\ waiters(lock_state') = waiters(lock_state)
                  /\ UNCHANGED <<condvar, awakened, queueVars>>
                  /\ poller'[p].events = poller[p].events
                  /\ poller'[p].native = poller[p].native
                  /\ (poller[p].pc = "gate_loop" /\ ~is_unlocked(poller[p].curr))
                        => /\ poller'[p].pc = "idle"
                           /\ lock_state' = lock_state]_vars

\* a poll with a zero timeout holds the mutex and is about to find the lock
\* bit set while another thread is in the poll body
C24_Witness ==
    \E p, q \in Pollers :
        /\ p # q
        /\ ZeroAtGate(p)
        /\ poller[p].pc = "gate_loop"
        /\ ~is_unlocked(poller[p].curr)
        /\ ~is_unlocked(lock_state)
        /\ InBody(q)

\* the Registration and every SetReadiness handle of node n have been dropped
\* and no handle method or drop is still running on it
AllHandlesGone(n) ==
    /\ ~registration_handle[n]
    /\ set_readiness_handles[n] = 0
    /\ \A t \in Producers : prod[t].node # n

\* C25: no leak: once the Registration and all SetReadiness handles of a node
\* are gone, the node is either deallocated, with a reference count of zero, or
\* still where the consumer will observe it and release its own reference:
\* linked in the queue, once no enqueue is unfinished and the consumer is
\* between two nodes.
C25_NoLeak ==
    \A n \in Nodes :
        AllHandlesGone(n) =>
            IF alloc[n] = "freed" THEN ref_count[n] = 0
            ELSE InQueue(n) \/ Enqueueing \/ ConsumerBusy

\* marker m is out of the queue: it is neither the consumer's tail nor the
\* head, no node is linked after it, and no producer holds it as the `prev`
\* of an unfinished enqueue
OutOfQueue(m) ==
    /\ tail_readiness # m
    /\ head_readiness # m
    /\ next_readiness[m] = Nil
    /\ \A t \in Producers : ~(prod[t].pc = "enq_link" /\ prod[t].prev = m)

\* C26: marker resets never unlink a node: the sleep marker is out of the
\* queue whenever prepare_for_sleep is about to store nil into its next
\* pointer, and the end marker is out of the queue whenever
\* try_remove_sleep_marker is about to store nil into its next pointer.
C26_MarkerResetsUnlinkNothing ==
    /\ poller[Consumer].pc = "pfs_store" => OutOfQueue(SleepMarker)
    /\ poller[Consumer].pc = "trsm_store" => OutOfQueue(EndMarker)

\* C28: dequeue_node returns Data only for registration nodes whose queued bit
\* is set: the node the drain holds is never a marker, every state the drain
\* loads from it while processing it has queued = 1 (the assertion at line
\* 1018), no event is made for a marker, and no marker's state word or
\* reference count is ever changed.
C28_OnlyQueuedNodesDequeued ==
    /\ poller[Consumer].ptr \notin Markers
    /\ poller[Consumer].pc = "pr_cas" => poller[Consumer].state.queued
    /\ \A i \in 1..Len(Events) : Events[i].node \in Nodes
    /\ \A m \in Markers : state[m] = ReadinessState_new({}, {})

\* the drain holds a node it dequeued in front of a marker that sits in the
\* middle of the queue, a node linked behind it
C28_Witness ==
    /\ poller[Consumer].pc = "pr_load"
    /\ poller[Consumer].ptr \in Nodes
    /\ tail_readiness \in Markers
    /\ next_readiness[tail_readiness] \in Nodes

\* no enqueue (a producer's, the consumer's push of the end marker or its
\* requeue of a level-triggered node) is between its swap of the head and the
\* store that links its predecessor
NoLinkInFlight ==
    /\ \A t \in Producers : prod[t].pc # "enq_link"
    /\ \A p \in Pollers : poller[p].pc \notin {"dq_push_link", "rq_link"}

\* C27: the queue is never structurally empty: the head and the consumer's
\* tail always point to a node, and whenever no link step is in flight the
\* head is reached from the tail by following next pointers and the head's
\* next pointer is nil.
C27_NeverStructurallyEmpty ==
    /\ head_readiness \in AllNodes
    /\ tail_readiness \in AllNodes
    /\ NoLinkInFlight
          => /\ head_readiness \in ReachFrom(tail_readiness, {})
             /\ next_readiness[head_readiness] = Nil

\* the part of C27 that is about the two pointers alone
C27_HeadAndTailPointToNodes ==
    /\ head_readiness \in AllNodes
    /\ tail_readiness \in AllNodes

\* dequeue_node returns Inconsistent to the consumer (lines 1148-1150, 1162)
ReturnsInconsistent ==
    /\ poller'[Consumer].pc = "exit"
    /\ \/ poller[Consumer].pc = "dq_head" /\ head_readiness # tail_readiness
       \/ poller[Consumer].pc = "dq_load3" /\ next_readiness[tail_readiness] = Nil

\* a producer has swapped the head and not yet linked its predecessor, or has
\* linked the tail's successor since the consumer found the tail's next
\* pointer nil
ProducerInGap ==
    \/ \E t \in Producers : prod[t].pc = "enq_link"
    \/ next_readiness[tail_readiness] # Nil

\* the part of C29 about the dequeue that returns Inconsistent
C29_InconsistentOnlyInGap ==
    [][ReturnsInconsistent
          => /\ ProducerInGap
             /\ UNCHANGED <<tail_readiness, state, ref_count>>]_vars

\* C29: Inconsistent is transient and lossless: dequeue_node returns
\* Inconsistent only when a producer is, or has been since the consumer loaded
\* the tail's next pointer, between its head swap and its link; the drain then
\* stops without moving the tail or changing a node; and a node behind the
\* registration node the drain stopped at stays linked behind the tail until
\* the consumer dequeues it, in blocking and non-blocking polls alike.
C29_InconsistentIsLossless ==
    [][/\ ReturnsInconsistent
             => /\ ProducerInGap
                /\ UNCHANGED <<tail_readiness, state, ref_count>>
       /\ \A n \in Nodes :
             (tail_readiness \in Nodes /\ InQueue(n) /\ ~InQueue(n)')
                => poller'[Consumer].ptr = n]_vars

\* the consumer's drain step on the node it holds is over: its CAS succeeded
\* or was not needed
DrainStepDone ==
    /\ poller[Consumer].pc = "pr_cas"
    /\ poller'[Consumer].pc # "pr_cas"
    /\ ~is_dropped(poller[Consumer].state)

\* C30: after the consumer's drain step on a dequeued node that is not
\* dropped, token_read_pos equals token_write_pos in the node's state word,
\* and the token of the event is read from the slot token_read_pos names.
C30_ReadPosFollowsWritePos ==
    [][/\ DrainStepDone
             => LET n == poller[Consumer].ptr
                IN state'[n].token_read_pos = state'[n].token_write_pos
       /\ (poller[Consumer].pc = "pr_event" /\ Len(Events') = Len(Events) + 1)
             => LET n == poller[Consumer].ptr
                IN Events'[Len(Events')].token =
                      token[n][poller[Consumer].next.token_read_pos + 1]]_vars

\* the part of C30 about the slot the event's token is read from
C30_TokenReadFromReadPos ==
    [][(poller[Consumer].pc = "pr_event" /\ Len(Events') = Len(Events) + 1)
          => LET n == poller[Consumer].ptr
             IN Events'[Len(Events')].token =
                   token[n][poller[Consumer].next.token_read_pos + 1]]_vars

\* the slot an update in progress on node n is about to write (lines 834-839)
WritesSlot(t, n, k) ==
    prod[t].pc = "up_write" /\ prod[t].node = n /\ prod[t].next_token_pos = k

\* the consumer has settled node n's state and will read, or is reading, the
\* token in slot k for its event (lines 1073-1075)
ReadsSlot(p, n, k) ==
    /\ poller[p].pc \in {"rq_swap", "rq_link", "pr_event"}
    /\ poller[p].ptr = n
    /\ poller[p].readiness # {}
    /\ event_token_pos(poller[p].next) = k

\* C31: token slot exclusion: the slot an update is writing is neither the
\* node's token_read_pos nor its token_write_pos, and it is not the slot the
\* consumer reads for an event of that node.
C31_TokenSlotExclusion ==
    \A t \in Producers, n \in Nodes, k \in 0..2 :
        WritesSlot(t, n, k) =>
            /\ k # state[n].token_read_pos
            /\ k # state[n].token_write_pos
            /\ \A p \in Pollers : ~ReadsSlot(p, n, k)

C31_Witness ==
    \E t \in Producers, n \in Nodes, k \in 0..2 :
        /\ WritesSlot(t, n, k)
        /\ poller[Consumer].pc = "pr_event"
        /\ \E j \in 0..2 : ReadsSlot(Consumer, n, j)

\* a producer pushes node n: the head swap of its enqueue (line 1106)
ProducerPushes(n) ==
    \E t \in Producers :
        prod[t].pc = "enq_swap" /\ prod[t].node = n /\ prod'[t].pc = "enq_link"

\* the consumer pushes node n back (line 1070)
ConsumerRequeues(n) ==
    /\ poller[Consumer].pc = "rq_swap"
    /\ poller[Consumer].ptr = n
    /\ poller'[Consumer].pc = "rq_link"

\* a handle call takes on the enqueue of node n: its state CAS set the queued
\* flag (lines 776, 889)
ProducerTakesEnqueue(n) ==
    \E t \in Producers :
        prod[t].pc # "enq_swap" /\ prod'[t].pc = "enq_swap" /\ prod'[t].node = n

\* the consumer acts on a state of node n in which it sees the dropped flag
\* (lines 1022-1026)
ObservesDropped(n) ==
    /\ poller[Consumer].pc = "pr_cas"
    /\ poller[Consumer].ptr = n
    /\ is_dropped(poller[Consumer].state)

\* node n is out of every thread's hands and out of the queue
Gone(n) ==
    /\ ~InQueue(n)
    /\ head_readiness # n
    /\ \A t \in Producers :
          ~(prod[t].node = n /\ prod[t].pc \in {"enq_swap", "enq_link"})
    /\ poller[Consumer].ptr # n

\* C32, as stated: once a node's dropped bit is set no push of that node
\* follows, by a handle call or by the consumer, and the consumer releases
\* its reference on the node at most once.
C32_NoPushOnceDropped ==
    /\ [](\A n \in Nodes : released[n] <= 1)
    /\ [][\A n \in Nodes :
            state[n].dropped => ~ProducerPushes(n) /\ ~ConsumerRequeues(n)]_vars

\* C32, amended: once a node's dropped bit is set its state word never changes
\* again and no handle call takes on an enqueue of it, so the only pushes that
\* follow finish an enqueue decided before the drop; the dequeue on which the
\* consumer observes the dropped bit releases the reference, once, and does
\* not requeue the node, and from then on the node is out of the queue and of
\* every thread's hands.
C32_NoEnqueueDecidedOnceDropped ==
    /\ [](\A n \in Nodes :
            /\ released[n] <= 1
            /\ released[n] = 1 => state[n].dropped /\ Gone(n))
    /\ [][\A n \in Nodes :
            /\ state[n].dropped => state'[n] = state[n] /\ ~ProducerTakesEnqueue(n)
            /\ (ObservesDropped(n) /\ poller'[Consumer] # poller[Consumer]) =>
                   /\ released'[n] = released[n] + 1
                   /\ poller'[Consumer].ptr = Nil
                   /\ poller'[Consumer].pc \notin {"rq_swap", "rq_link", "pr_event"}
            /\ released'[n] # released[n] => ObservesDropped(n)]_vars

C32_Witness ==
    \E n \in Nodes, t \in Producers :
        /\ released[n] = 1
        /\ prod[t].pc = "sr_cas"
        /\ prod[t].node = n
        /\ is_dropped(prod[t].state)

\* the Registration handles of node n that hold a reference: the handle, until
\* its inner handle has been released (lines 690-703, 948-953)
RegistrationRefs(n) ==
    IF registration_handle[n] \/
       \E t \in Producers : prod[t].pc = "release" /\ prod[t].node = n
    THEN 1 ELSE 0

\* the consumer's implicit reference to node n, until it is released (line 1024)
ConsumerRef(n) == IF released[n] = 0 THEN 1 ELSE 0

\* C33: reference-count accounting: ref_count is the number of live
\* Registration handles plus the number of live SetReadiness handles plus one
\* while the consumer has not released its reference (3 at creation); it
\* never underflows; the node is deallocated on the step that takes ref_count
\* from 1 to 0 and on no other, and a deallocated node's count never changes.
C33_RefCountAccounting ==
    /\ [](\A n \in Nodes :
            /\ ref_count[n] =
                  RegistrationRefs(n) + set_readiness_handles[n] + ConsumerRef(n)
            /\ ref_count[n] >= 0
            /\ alloc[n] = "freed" <=> ref_count[n] = 0)
    /\ [][\A n \in Nodes :
            /\ alloc'[n] # alloc[n] =>
                   /\ alloc[n] = "live" /\ alloc'[n] = "freed"
                   /\ ref_count[n] = 1 /\ ref_count'[n] = 0
            /\ alloc[n] = "freed" => ref_count'[n] = ref_count[n]]_vars

C33_Witness ==
    \E n \in Nodes :
        /\ alloc[n] = "freed"
        /\ released[n] = 1
        /\ ref_count[n] = 0
        /\ RegistrationRefs(n) + set_readiness_handles[n] = 0

\* thread p has incremented the waiter count and has neither acquired the gate
\* nor timed out (lines 407-424)
CountedWaiter(p) ==
    /\ poller[p].inc
    /\ poller[p].pc \in {"gate_loop", "gate_wait", "gate_waiting", "gate_relock",
                        "gate_expired"}

ReturnsClean(p) ==
    /\ poller[p].pc = "exit"
    /\ ~poller[p].failed
    /\ touched = {}
    /\ Len_events(p) < poller[p].capacity

\* C35, the failing return alone: a poll whose selector call failed removes
\* the sleep marker if it had prepared to sleep, makes no event and changes
\* no node and no link between nodes, clears the lock bit and goes on to
\* notify a waiter if one is counted.
C35_FailedPollLeavesQueue ==
    [][\A p \in Pollers :
          /\ (poller[p].pc = "select" /\ poller'[p].failed) =>
                 poller'[p].pc = IF poller[p].sleep THEN "trsm_store" ELSE "exit"
          /\ (poller[p].failed /\ poller'[p] # poller[p]) =>
                 /\ poller[p].pc \in {"trsm_store", "trsm_cas", "exit"}
                 /\ poller[p].pc = "trsm_store" => poller'[p].pc = "trsm_cas"
                 /\ poller[p].pc = "trsm_cas" => poller'[p].pc = "exit"
                 /\ poller[p].events = <<>> /\ poller[p].native = 0
                 /\ UNCHANGED <<state, token, awakened, ref_count, alloc>>
                 /\ \A n \in Nodes : next_readiness'[n] = next_readiness[n]
                 /\ next_readiness'[SleepMarker] = next_readiness[SleepMarker]
                 /\ tail_readiness' # tail_readiness =>
                        tail_readiness = SleepMarker /\ tail_readiness' = EndMarker
                 /\ poller[p].pc = "exit" =>
                        /\ is_unlocked(lock_state')
                        /\ waiters(lock_state') = waiters(lock_state)
                        /\ poller'[p].pc =
                              IF waiters(lock_state) > 0 THEN "notify" ELSE "idle"
          /\ (poller[p].pc = "notify" /\ poller'[p] # poller[p]
                 /\ condvar.waiting # {}) =>
                 \E w \in condvar.waiting : w \in condvar'.notified]_vars

\* C35: selector failure: the failing poll returns as above, and the nodes
\* it left linked in the queue are dequeued by the next poll whose selector
\* call succeeds (one that no producer step overlaps and that has room).
C35_SelectorFailure ==
    /\ C35_FailedPollLeavesQueue
    /\ [](\A p \in Pollers : ReturnsClean(p) => undrained = {})

\* thread p is between a successful prepare_for_sleep and the end of
\* try_remove_sleep_marker (lines 485-510)
Sleeping(p) ==
    /\ poller[p].pc \in {"select", "trsm_store", "trsm_cas"}
    /\ poller[p].sleep
    /\ poller[p].timeout # "zero"

\* a producer's head swap returns the sleep marker (line 1106)
SwapsOutSleepMarker(t) ==
    /\ prod[t].pc = "enq_swap"
    /\ prod'[t].pc = "enq_link"
    /\ prod'[t].prev = SleepMarker

\* C36: the awakener is woken at most once per successful prepare_for_sleep:
\* the head is the sleep marker only while the consumer is between a
\* successful prepare_for_sleep, made for a poll that may block, and its
\* try_remove_sleep_marker; only that CAS puts the sleep marker at the head,
\* and the first head swap by a producer or the removing CAS takes it off;
\* a producer gets the sleep marker as its prev only by that one swap, the
\* consumer's own enqueues never do, and only such a producer calls wakeup.
C36_WakeupOncePerSleep ==
    /\ [](/\ head_readiness = SleepMarker => Sleeping(Consumer)
          /\ \A p \in Pollers : poller[p].prev # SleepMarker
          /\ \A p \in Pollers :
                poller[p].pc \in {"pfs_store", "pfs_cas"} => poller[p].timeout # "zero"
          /\ Cardinality({t \in Producers : prod[t].prev = SleepMarker})
                + (IF head_readiness = SleepMarker THEN 1 ELSE 0) <= MaxPolls - polls)
    /\ [][
           /\ (head_readiness' = SleepMarker /\ head_readiness # SleepMarker) =>
               /\ poller[Consumer].pc = "pfs_cas"
               /\ head_readiness = EndMarker
               /\ poller'[Consumer].sleep
           /\ (head_readiness = SleepMarker /\ head_readiness' # SleepMarker) =>
               \/ \E t \in Producers : SwapsOutSleepMarker(t)
               \/ poller[Consumer].pc = "trsm_cas" /\ head_readiness' = EndMarker
           /\ \A t \in Producers :
                /\ (prod'[t].prev = SleepMarker /\ prod[t].prev # SleepMarker) =>
                       /\ head_readiness = SleepMarker
                       /\ head_readiness' = prod[t].node
                /\ (prod'[t].pc = "enq_wakeup" /\ prod[t].pc # "enq_wakeup") =>
                       prod[t].prev = SleepMarker
           /\ (awakened' /\ ~awakened) =>
                \E t \in Producers :
                    prod[t].pc = "enq_wakeup" /\ prod[t].prev = SleepMarker]_vars

C36_Witness ==
    \E t, u \in Producers :
        /\ prod[t].pc = "enq_wakeup"
        /\ prod[t].prev = SleepMarker
        /\ prod[u].pc = "idle"
        /\ head_readiness \in Nodes \ {prod[t].node}
        /\ Sleeping(Consumer)

\* thread t's CAS on the state word succeeds on this step (lines 767, 873)
HandleCasSucceeds(t) ==
    /\ prod[t].pc \in {"sr_cas", "up_cas"}
    /\ prod'[t] # prod[t]
    /\ state'[prod[t].node] # state[prod[t].node]

\* thread t's call has written a state with empty effective readiness and is
\* about to release update_lock
WroteEmpty(t) ==
    /\ prod[t].pc = "up_unlock"
    /\ effective_readiness(prod[t].next) = {}

\* C37: set_readiness and update set the queued bit only when the state they
\* write has a non-empty effective readiness, and enqueue only when they set
\* it: a call that writes a state with empty effective readiness leaves the
\* queued bit as it was and returns without enqueue and without wakeup.
C37_QueuedOnlyWhenReady ==
    [][\A t \in Producers :
          LET n == prod[t].node
          IN /\ HandleCasSucceeds(t) =>
                  /\ (state'[n].queued /\ ~state[n].queued) =>
                         effective_readiness(state'[n]) # {}
                  /\ effective_readiness(state'[n]) = {} =>
                         /\ state'[n].queued = state[n].queued
                         /\ prod'[t].pc \in {"idle", "up_unlock"}
                  /\ state'[n].dropped = state[n].dropped
                  /\ UNCHANGED <<queueVars, awakened>>
             /\ (WroteEmpty(t) /\ prod'[t] # prod[t]) =>
                  /\ prod'[t].pc = "idle"
                  /\ UNCHANGED <<state, queueVars, awakened>>
             /\ (prod'[t].pc = "enq_swap" /\ prod[t].pc # "enq_swap") =>
                  /\ effective_readiness(prod'[t].next) # {}
                  /\ ~prod[t].state.queued
                  /\ prod'[t].next.queued]_vars

C37_Witness ==
    \E t \in Producers :
        /\ WroteEmpty(t)
        /\ prod[t].next.queued
        /\ prod[t].next.readiness # {}
        /\ state[prod[t].node] = prod[t].next

\* the operation that takes this step on node n's state word
BySetReadiness(n) ==
    \E t \in Producers :
        prod[t].pc = "sr_cas" /\ prod[t].node = n /\ prod'[t] # prod[t]
ByUpdate(n) ==
    \E t \in Producers :
        prod[t].pc = "up_cas" /\ prod[t].node = n /\ prod'[t] # prod[t]
ByDrain(n) ==
    /\ poller[Consumer].pc = "pr_cas"
    /\ poller[Consumer].ptr = n
    /\ poller'[Consumer] # poller[Consumer]
ByDrop(n) ==
    \E t \in Producers :
        prod[t].pc = "idle" /\ prod'[t].op = "drop" /\ prod'[t].node = n

\* C38: each operation changes only its own fields of the state word:
\* set_readiness the readiness, and it may set queued; update the interest,
\* the options and token_write_pos, and it may set queued; the drain queued,
\* token_read_pos and, disarming a oneshot node, the interest; the drop of
\* the Registration sets the dropped bit and nothing else; no step clears
\* dropped, only the drain clears queued, and no other step writes the word.
C38_OwnFieldsOnly ==
    [][\A n \in Nodes :
          LET s == state[n]
              w == state'[n]
          IN /\ w # s => BySetReadiness(n) \/ ByUpdate(n) \/ ByDrain(n) \/ ByDrop(n)
             /\ (w # s /\ BySetReadiness(n)) =>
                    /\ w = [s EXCEPT !.readiness = w.readiness, !.queued = w.queued]
                    /\ s.queued => w.queued
             /\ (w # s /\ ByUpdate(n)) =>
                    /\ w = [s EXCEPT !.interest = w.interest, !.opts = w.opts,
                                     !.token_write_pos = w.token_write_pos,
                                     !.queued = w.queued]
                    /\ s.queued => w.queued
             /\ (w # s /\ ByDrain(n)) =>
                    /\ w = [s EXCEPT !.queued = w.queued,
                                     !.token_read_pos = w.token_read_pos,
                                     !.interest = w.interest]
                    /\ w.interest # s.interest =>
                           is_oneshot(s.opts) /\ w.interest = {}
             /\ (w # s /\ ByDrop(n)) => w = [s EXCEPT !.dropped = TRUE]
             /\ s.dropped => w.dropped
             /\ (s.queued /\ ~w.queued) => ByDrain(n)]_vars

C38_Witness ==
    /\ poller[Consumer].pc = "pr_event"
    /\ is_oneshot(poller[Consumer].next.opts)
    /\ poller[Consumer].next.interest = {}
    /\ poller[Consumer].state.interest # {}
    /\ ~poller[Consumer].next.queued
    /\ poller[Consumer].next.token_write_pos # 0
    /\ state[poller[Consumer].ptr].dropped

\* C39: next_token_pos: for every token_read_pos and token_write_pos in
\* {0, 1, 2} the result update has computed for the state word it loaded
\* (line 831) is a slot in {0, 1, 2} different from both; when the
\* two differ it is the one remaining slot, and when they are equal it is
\* (token_write_pos + 1) mod 3.
C39_NextTokenPos ==
    \A t \in Producers :
        prod[t].pc = "up_write" =>
            LET rd == prod[t].state.token_read_pos
                wr == prod[t].state.token_write_pos
                pos == prod[t].next_token_pos
            IN /\ pos = next_token_pos(prod[t].state)
               /\ pos \in TokenPositions
               /\ pos # rd
               /\ pos # wr
               /\ rd # wr => TokenPositions \ {rd, wr} = {pos}
               /\ rd = wr => pos = (wr + 1) % 3

C39_Witness ==
    \E t \in Producers :
        /\ prod[t].pc = "up_write"
        /\ prod[t].state.token_read_pos = 2
        /\ prod[t].state.token_write_pos = 1
        /\ prod[t].next_token_pos = 0


====
